---- MODULE Spec2Model ----
(***************************************************************************)
(* Model of the CatColab frontend's live documents: the model notebook and *)
(* its validation (catlogModel / validateModel), the loading of model and  *)
(* analysis pages, the replicated notebook, and the Decapodes simulation.  *)
(***************************************************************************)
EXTENDS Integers, Sequences, FiniteSets, TLC

\* ------------------------------------------------------------------ bounds
\* Number of uuids uuidv7() may hand out in one behaviour.
MaxUuid == 6
\* Longest notebook (cells) of the model document.
MaxCells == 2
\* Number of documents the server stores.
MaxRefs == 3
\* Number of changes the actors make to the replicated notebook.
MaxChanges == 3
\* Longest diagram (formal cells).
MaxDiagramCells == 1
\* Longest diagram (cells) sent to the decapodes service.
MaxPodeCells == 3
\* Longest model (cells) sent to the decapodes service.
MaxTheoryCells == 3

\* ------------------------------------------------------------------ state
VARIABLES
    theory,             \* ModelDocument.theory: the id of the model's theory
    docName,            \* ModelDocument.name
    notebook,           \* ModelDocument.notebook.cells
    nextUuid,           \* the next value uuidv7() returns
    validated,          \* liveModel's derived state: validateModel(theory, judgments)
    cellValidatedModel, \* the validatedModel memo of ModelAnalysisCellEditor
    objectIndex,        \* liveModel's derived state: object id -> current name
    store,              \* the server's documents, by ref id
    page,               \* the mounted page component and its fetcher's position
    resource,           \* the page's createResource: state, value, error
    requests,           \* the ref ids the mounted page has asked retrieval of
    newRefReq,          \* the new_ref request in flight, if any
    replicas,           \* per actor, the changes of the replicated document it holds
    diagram,            \* the formal judgments of the diagram document
    validatedDiagram,   \* liveDiagram.validatedDiagram()
    diagramObjectIndex, \* liveDiagram.objectIndex()
    decapodesContent,   \* the DecapodesContent of the analysis cell (props.content)
    kernel,             \* Decapodes: the kernel resource, and its fetcher's position
    simResult,          \* Decapodes: the result resource
    inflight,           \* the simulation request the kernel has not answered yet
    mounted,            \* is the Decapodes component mounted (not disposed)?
    runningKernels      \* the kernels of this client alive on the Jupyter server

editVars == <<theory, docName, notebook, nextUuid, validated, cellValidatedModel,
              objectIndex>>

loadVars == <<store, page, resource, requests, newRefReq>>

syncVars == <<replicas>>

simVars == <<diagram, validatedDiagram, diagramObjectIndex, decapodesContent, kernel,
             simResult, inflight, mounted, runningKernels>>

vars == <<theory, docName, notebook, nextUuid, validated, cellValidatedModel,
          objectIndex, store, page, resource, requests, newRefReq, replicas,
          diagram, validatedDiagram, diagramObjectIndex, decapodesContent, kernel,
          simResult, inflight, mounted, runningKernels>>

\* ------------------------------------------------------------------ values
\* JavaScript's null and undefined.
Null == [tag |-> "null"]
Undefined == [tag |-> "undefined"]

\* The theory library (stdTheories): theory ids and the kind of each theory.
Theories == {"simple-olog", "stock-flow"}

TheoryKind(th) == IF th = "simple-olog" THEN "Discrete" ELSE "DiscreteTab"

\* The type metadata of a theory (theory.modelTypes): one object type and one
\* morphism type per theory.
ModelTypes(th) ==
    << [tag |-> "ObType", obType |-> [tag |-> "Basic", content |-> th]],
       [tag |-> "MorType", morType |-> [tag |-> "Hom", content |-> th]] >>

\* Human-readable names an editor may type.
Names == {"", "a"}

\* ------------------------------------------------------------------ judgments
\* newObjectDecl, were the id generated once, when the module is loaded.
newObjectDeclSharedId(id, obType) ==
    [tag |-> "object", id |-> 1, name |-> "", obType |-> obType]

\* newObjectDecl(obType) with uuidv7() returning id.
newObjectDecl(id, obType) ==
    [tag |-> "object", id |-> id, name |-> "", obType |-> obType]

\* newMorphismDecl(morType) with uuidv7() returning id.
newMorphismDecl(id, morType) ==
    [tag |-> "morphism", id |-> id, name |-> "", morType |-> morType,
     dom |-> Null, cod |-> Null]

\* newFormalCell(content) / newRichTextCell() of the notebook module, with
\* the cell's own uuid.
newFormalCell(id, content) == [tag |-> "formal", id |-> id, content |-> content]

newRichTextCell(id) == [tag |-> "rich-text", id |-> id, content |-> ""]

\* A basic object, as dom/cod hold it.
BasicOb(id) == [tag |-> "Basic", content |-> id]

\* formalJudgments, were it to stop at the first cell that is not formal.
RECURSIVE formalJudgmentsUntilRichText(_)
formalJudgmentsUntilRichText(cells) ==
    IF cells = <<>> THEN <<>>
    ELSE IF Head(cells).tag = "formal"
         THEN <<Head(cells).content>> \o formalJudgmentsUntilRichText(Tail(cells))
         ELSE <<>>

\* liveModel.formalJudgments(): the contents of the formal cells, in order.
RECURSIVE formalJudgments(_)
formalJudgments(cells) ==
    IF cells = <<>> THEN <<>>
    ELSE IF Head(cells).tag = "formal"
         THEN <<Head(cells).content>> \o formalJudgments(Tail(cells))
         ELSE formalJudgments(Tail(cells))

\* ------------------------------------------------------------------ catlog
\* new DblModel(theory): an empty model.
NewDblModel(th) == [theory |-> th, obs |-> <<>>, mors |-> <<>>]

\* DblModel.addOb(decl): the ObDecl part of the judgment is appended.
addOb(model, decl) ==
    [model EXCEPT !.obs = Append(@, [id |-> decl.id, obType |-> decl.obType])]

\* DblModel.addMor(decl): the MorDecl part of the judgment is appended.
addMor(model, decl) ==
    [model EXCEPT !.mors = Append(@, [id |-> decl.id, morType |-> decl.morType,
                                      dom |-> decl.dom, cod |-> decl.cod])]

\* The step, were the morphism branch missing.
catlogModelStepSkipMor(model, judgment) ==
    IF judgment.tag = "object" THEN addOb(model, judgment)
    ELSE model

\* One step of catlogModel's loop.
catlogModelStep(model, judgment) ==
    IF judgment.tag = "object" THEN addOb(model, judgment)
    ELSE IF judgment.tag = "morphism" THEN addMor(model, judgment)
    ELSE model

\* The loop of catlogModel, were it to skip a morphism whose dom or cod is not
\* among the objects added so far.
RECURSIVE catlogModelFromDropDangling(_, _)
catlogModelFromDropDangling(model, judgments) ==
    IF judgments = <<>> THEN model
    ELSE LET j == Head(judgments)
             known == {model.obs[i].id : i \in 1..Len(model.obs)}
             dangling == /\ j.tag = "morphism"
                         /\ \/ j.dom.tag # "Basic"
                            \/ j.cod.tag # "Basic"
                            \/ j.dom.content \notin known
                            \/ j.cod.content \notin known
         IN catlogModelFromDropDangling(
                IF dangling THEN model ELSE catlogModelStep(model, j),
                Tail(judgments))

\* The loop of catlogModel, were it to build the model back to front.
RECURSIVE catlogModelFromReversed(_, _)
catlogModelFromReversed(model, judgments) ==
    IF judgments = <<>> THEN model
    ELSE catlogModelStep(catlogModelFromReversed(model, Tail(judgments)),
                         Head(judgments))

\* The loop of catlogModel: every judgment, in sequence order.
RECURSIVE catlogModelFrom(_, _)
catlogModelFrom(model, judgments) ==
    IF judgments = <<>> THEN model
    ELSE catlogModelFrom(catlogModelStep(model, Head(judgments)), Tail(judgments))

\* catlogModel(theory, judgments).
catlogModel(th, judgments) == catlogModelFrom(NewDblModel(th), judgments)

\* The ids of the objects of a model.
ObIdsOf(model) == {model.obs[i].id : i \in 1..Len(model.obs)}

\* Does a dom/cod value resolve to an object of the model?
Resolves(model, ob) == ob.tag = "Basic" /\ ob.content \in ObIdsOf(model)

\* The structural errors of one morphism: a dom / cod that is null or names
\* no object of the model.
MorErrors(model, mor) ==
    (IF Resolves(model, mor.dom) THEN <<>>
     ELSE <<[judgment |-> mor.id, kind |-> "dangling-dom"]>>)
    \o
    (IF Resolves(model, mor.cod) THEN <<>>
     ELSE <<[judgment |-> mor.id, kind |-> "dangling-cod"]>>)

RECURSIVE ModelErrors(_, _)
ModelErrors(model, mors) ==
    IF mors = <<>> THEN <<>>
    ELSE MorErrors(model, Head(mors)) \o ModelErrors(model, Tail(mors))

\* DblModel.validate(): Ok, or Err with the list of structural errors.
validate(model) ==
    LET errs == ModelErrors(model, model.mors)
    IN IF errs = <<>> THEN [tag |-> "Ok", content |-> Null]
       ELSE [tag |-> "Err", content |-> errs]

\* validateModel, were the check of the theory's kind missing.
validateModelNoKindCheck(th, judgments) ==
    LET model == catlogModel(th, judgments)
    IN [model |-> model, result |-> validate(model)]

\* validateModel(theory, judgments).
validateModel(th, judgments) ==
    IF TheoryKind(th) # "Discrete" THEN Undefined
    ELSE LET model == catlogModel(th, judgments)
         IN [model |-> model, result |-> validate(model)]

\* A call of validateModel, were catlogModel's loop to take the judgments off
\* the array it is given.
validateModelCallConsuming(th, judgments) ==
    [result |-> validateModel(th, judgments), judgments |-> <<>>]

\* A call of validateModel with its effect on the caller's array: what it
\* returns, and the judgments after the call. catlogModel builds a new
\* DblModel and its loop only reads the array.
validateModelCall(th, judgments) ==
    [result |-> validateModel(th, judgments), judgments |-> judgments]

\* liveModel.validationResult(): the tagged form the analysis pane reads.
validationResult(v) ==
    IF v = Undefined THEN [tag |-> "notsupported"]
    ELSE IF v.result.tag = "Ok" THEN [tag |-> "validated", value |-> v.model]
    ELSE [tag |-> "errors", value |-> v.result.content]

\* The memo, were its tag test never to succeed.
validatedModelMemoWrongTag(res) == IF res.tag = "valid" THEN res.value ELSE Null

\* The validatedModel memo of ModelAnalysisCellEditor.
validatedModelMemo(res) == IF res.tag = "validated" THEN res.value ELSE Null

\* ------------------------------------------------------------------ object index
\* The index, were it to keep the name a declaration was created with.
indexObjectsAtCreation(judgments) ==
    [id \in {judgments[i].id :
                i \in {k \in 1..Len(judgments) : judgments[k].tag = "object"}} |-> ""]

\* The object index of a sequence of judgments: the id of every object
\* declaration mapped to the declaration's name.
indexObjects(judgments) ==
    LET obs == {k \in 1..Len(judgments) : judgments[k].tag = "object"}
    IN [id \in {judgments[i].id : i \in obs} |->
           judgments[CHOOSE i \in obs : judgments[i].id = id].name]

\* ------------------------------------------------------------------ diagrams
\* A new object declaration of a diagram: over is the model object it lies
\* over, null until the editor fills it in.
newDiagramObjectDecl(id) == [tag |-> "object", id |-> id, name |-> "", over |-> Null]

\* The diagram as catlog holds it: the declarations without their names.
RECURSIVE toCatlogDiagram(_)
toCatlogDiagram(judgments) ==
    IF judgments = <<>> THEN <<>>
    ELSE LET j == Head(judgments)
         IN <<IF j.tag = "object"
              THEN [tag |-> j.tag, id |-> j.id, over |-> j.over]
              ELSE [tag |-> j.tag, id |-> j.id, over |-> j.over,
                    dom |-> j.dom, cod |-> j.cod]>>
            \o toCatlogDiagram(Tail(judgments))

\* fromCatlogDiagram(diagram, obIdToName): the judgments of a catlog diagram,
\* each object named by looking its id up (an id that has no name is named
\* ""); the function is given no names for the morphisms.
RECURSIVE fromCatlogDiagram(_, _)
fromCatlogDiagram(catlogDiagram, idToName) ==
    IF catlogDiagram = <<>> THEN <<>>
    ELSE LET decl == Head(catlogDiagram)
         IN <<IF decl.tag = "object"
              THEN [tag |-> decl.tag, id |-> decl.id,
                    name |-> IF decl.id \in DOMAIN idToName THEN idToName[decl.id]
                             ELSE "",
                    over |-> decl.over]
              ELSE [tag |-> decl.tag, id |-> decl.id, name |-> "",
                    over |-> decl.over, dom |-> decl.dom, cod |-> decl.cod]>>
            \o fromCatlogDiagram(Tail(catlogDiagram), idToName)

\* The ids of the morphisms of a model.
MorIdsOf(model) == {model.mors[i].id : i \in 1..Len(model.mors)}

\* The errors of one declaration of a diagram: an object whose `over` names
\* no object of the model; a morphism whose `over` names no morphism of the
\* model, or whose dom / cod names no object of the diagram.
DiagramDeclErrors(model, obIds, j) ==
    IF j.tag = "object"
    THEN (IF Resolves(model, j.over) THEN <<>>
          ELSE <<[judgment |-> j.id, kind |-> "dangling-over"]>>)
    ELSE (IF j.over.tag = "Basic" /\ j.over.content \in MorIdsOf(model) THEN <<>>
          ELSE <<[judgment |-> j.id, kind |-> "dangling-over"]>>)
         \o (IF j.dom.tag = "Basic" /\ j.dom.content \in obIds THEN <<>>
             ELSE <<[judgment |-> j.id, kind |-> "dangling-dom"]>>)
         \o (IF j.cod.tag = "Basic" /\ j.cod.content \in obIds THEN <<>>
             ELSE <<[judgment |-> j.id, kind |-> "dangling-cod"]>>)

RECURSIVE DiagramErrorsIn(_, _, _)
DiagramErrorsIn(model, obIds, judgments) ==
    IF judgments = <<>> THEN <<>>
    ELSE DiagramDeclErrors(model, obIds, Head(judgments))
         \o DiagramErrorsIn(model, obIds, Tail(judgments))

\* The validation of a diagram in its model.
DiagramErrors(model, judgments) ==
    DiagramErrorsIn(model,
                    {judgments[i].id :
                        i \in {k \in 1..Len(judgments) : judgments[k].tag = "object"}},
                    judgments)

\* liveDiagram.validatedDiagram(): not computable unless the validation of the
\* embedded model is Ok.
validateDiagram(validatedModel, judgments) ==
    IF validatedModel = Undefined THEN Undefined
    ELSE IF validatedModel.result.tag # "Ok" THEN Undefined
    ELSE LET errs == DiagramErrors(validatedModel.model, judgments)
         IN [diagram |-> toCatlogDiagram(judgments),
             result |-> IF errs = <<>> THEN [tag |-> "Ok", content |-> Null]
                        ELSE [tag |-> "Err", content |-> errs]]

\* ------------------------------------------------------------------ editing
\* The derived state is recomputed synchronously with every change of the
\* document.
Derive ==
    /\ validated' = validateModel(theory', formalJudgments(notebook'))
    /\ cellValidatedModel' =
         validatedModelMemo(validationResult(
             validateModel(theory', formalJudgments(notebook'))))
    /\ objectIndex' = indexObjects(formalJudgments(notebook'))
    /\ validatedDiagram' =
         validateDiagram(validateModel(theory', formalJudgments(notebook')), diagram)
    /\ UNCHANGED <<diagram, diagramObjectIndex, decapodesContent, kernel, simResult,
                   inflight, mounted, runningKernels>>
    /\ UNCHANGED loadVars
    /\ UNCHANGED syncVars

\* insertAt(index, cell) on a sequence of cells.
insertAt(cells, i, cell) ==
    SubSeq(cells, 1, i - 1) \o <<cell>> \o SubSeq(cells, i, Len(cells))

\* removeAt(index).
removeAt(cells, i) == SubSeq(cells, 1, i - 1) \o SubSeq(cells, i + 1, Len(cells))

\* The construct() of the k-th cell constructor of modelCellConstructors.
construct(meta, cellId, declId) ==
    IF meta.tag = "ObType"
    THEN newFormalCell(cellId, newObjectDecl(declId, meta.obType))
    ELSE newFormalCell(cellId, newMorphismDecl(declId, meta.morType))

\* changeNotebook(f) with f inserting a freshly constructed formal cell.
InsertFormalCell ==
    \E i \in 1..(Len(notebook) + 1), k \in 1..Len(ModelTypes(theory)) :
        /\ Len(notebook) < MaxCells
        /\ nextUuid + 1 <= MaxUuid
        /\ notebook' = insertAt(notebook, i,
                                construct(ModelTypes(theory)[k], nextUuid + 1, nextUuid))
        /\ nextUuid' = nextUuid + 2
        /\ UNCHANGED <<theory, docName>>
        /\ Derive

\* changeNotebook(f) with f inserting a rich-text cell.
InsertRichTextCell ==
    \E i \in 1..(Len(notebook) + 1) :
        /\ Len(notebook) < MaxCells
        /\ nextUuid <= MaxUuid
        /\ notebook' = insertAt(notebook, i, newRichTextCell(nextUuid))
        /\ nextUuid' = nextUuid + 1
        /\ UNCHANGED <<theory, docName>>
        /\ Derive

\* The removal of a cell, were it offered only while the model validates.
RemoveCellWhenValid ==
    \E i \in 1..Len(notebook) :
        /\ validated # Undefined
        /\ validated.result.tag = "Ok"
        /\ notebook' = removeAt(notebook, i)
        /\ UNCHANGED <<theory, docName, nextUuid>>
        /\ Derive

\* changeNotebook(f) with f removing a cell.
RemoveCell ==
    \E i \in 1..Len(notebook) :
        /\ notebook' = removeAt(notebook, i)
        /\ UNCHANGED <<theory, docName, nextUuid>>
        /\ Derive

\* The objects an editor can pick as dom / cod: null or an object of the
\* notebook.
ObChoices ==
    {Null} \cup {BasicOb(notebook[i].content.id) :
                    i \in {j \in 1..Len(notebook) :
                              /\ notebook[j].tag = "formal"
                              /\ notebook[j].content.tag = "object"}}

\* ModelCellEditor: modifyObject / modifyMorphism set the name.
SetName ==
    \E i \in 1..Len(notebook), n \in Names :
        /\ notebook[i].tag = "formal"
        /\ notebook[i].content.name # n
        /\ notebook' = [notebook EXCEPT ![i].content.name = n]
        /\ UNCHANGED <<theory, docName, nextUuid>>
        /\ Derive

\* ModelCellEditor: modifyMorphism sets the domain.
SetDom ==
    \E i \in 1..Len(notebook), ob \in ObChoices :
        /\ notebook[i].tag = "formal"
        /\ notebook[i].content.tag = "morphism"
        /\ notebook[i].content.dom # ob
        /\ notebook' = [notebook EXCEPT ![i].content.dom = ob]
        /\ UNCHANGED <<theory, docName, nextUuid>>
        /\ Derive

\* ModelCellEditor: modifyMorphism sets the codomain.
SetCod ==
    \E i \in 1..Len(notebook), ob \in ObChoices :
        /\ notebook[i].tag = "formal"
        /\ notebook[i].content.tag = "morphism"
        /\ notebook[i].content.cod # ob
        /\ notebook' = [notebook EXCEPT ![i].content.cod = ob]
        /\ UNCHANGED <<theory, docName, nextUuid>>
        /\ Derive

\* Editing the text of a rich-text cell.
EditRichText ==
    \E i \in 1..Len(notebook), n \in Names :
        /\ notebook[i].tag = "rich-text"
        /\ notebook[i].content # n
        /\ notebook' = [notebook EXCEPT ![i].content = n]
        /\ UNCHANGED <<theory, docName, nextUuid>>
        /\ Derive

\* ModelPane: the title's setText.
SetDocName ==
    \E n \in Names :
        /\ docName # n
        /\ docName' = n
        /\ UNCHANGED <<theory, notebook, nextUuid>>
        /\ Derive

\* ModelPane: the theory selector is disabled while the notebook has a formal
\* cell.
TheorySelectorDisabled ==
    \E i \in 1..Len(notebook) : notebook[i].tag = "formal"

\* ModelPane: setTheory(id).
SetTheory ==
    \E id \in Theories :
        /\ ~TheorySelectorDisabled
        /\ theory # id
        /\ theory' = id
        /\ UNCHANGED <<docName, notebook, nextUuid>>
        /\ Derive

\* newModelDocument() made live: the default theory and an empty notebook.
InitEdit ==
    /\ theory = "simple-olog"
    /\ docName = ""
    /\ notebook = <<>>
    /\ nextUuid = 1
    /\ validated = validateModel("simple-olog", <<>>)
    /\ cellValidatedModel =
         validatedModelMemo(validationResult(validateModel("simple-olog", <<>>)))
    /\ objectIndex = indexObjects(<<>>)

NextEdit ==
    \/ InsertFormalCell
    \/ InsertRichTextCell
    \/ RemoveCell
    \/ SetName
    \/ SetDom
    \/ SetCod
    \/ EditRichText
    \/ SetDocName
    \/ SetTheory

\* ------------------------------------------------------------------ documents
\* The ref ids the server hands out.
Refs == 1..MaxRefs

\* No document is stored under a ref.
NoDoc == [absent |-> TRUE]

\* newModelDocument().
newModelDocument ==
    [type |-> "model", name |-> "", theory |-> "simple-olog", notebook |-> <<>>]

\* newAnalysisDocument(modelRefId).
newAnalysisDocument(modelRefId) ==
    [name |-> "",
     type |-> "analysis",
     modelRef |-> [tag |-> "extern-ref", refId |-> modelRefId, taxon |-> "model"],
     notebook |-> <<>>]

\* newDiagramDocument(modelRefId).
newDiagramDocument(modelRefId) ==
    [name |-> "",
     type |-> "diagram",
     modelRef |-> [tag |-> "extern-ref", refId |-> modelRefId, taxon |-> "model"],
     notebook |-> <<>>]

\* The extern reference as AnalysisPage reads it: {__extern__: {refId, taxon}}.
nestedExternRef(refId, taxon) ==
    ("__extern__" :> [refId |-> refId, taxon |-> taxon])

\* Documents stored by another client in the shape AnalysisPage reads: an
\* analysis or a diagram of the model modelRefId, and a document that has no
\* type discriminator.
StoredElsewhere(modelRefId) ==
    { [name |-> "", type |-> "analysis",
       modelRef |-> nestedExternRef(modelRefId, "model"), notebook |-> <<>>],
      [name |-> "", type |-> "diagram",
       modelRef |-> nestedExternRef(modelRefId, "model"), notebook |-> <<>>],
      [name |-> "", notebook |-> <<>>] }

\* doc.type, a string; a missing discriminator reads as undefined.
TypeOf(doc) == IF "type" \in DOMAIN doc THEN doc.type ELSE "undefined"

\* Reading a property of a JavaScript object: undefined when it is missing.
Get(obj, field) == IF field \in DOMAIN obj THEN obj[field] ELSE Undefined

\* The refs under which a document is stored, and the first free ref.
Stored == {r \in Refs : store[r] # NoDoc}

FreeRefs == Refs \ Stored

\* ------------------------------------------------------------------ resources
\* The states of a createResource.
Pending == [state |-> "pending", value |-> Undefined, error |-> ""]

Ready(value) == [state |-> "ready", value |-> value, error |-> ""]

Errored(error) == [state |-> "errored", value |-> Undefined, error |-> error]

Unresolved == [state |-> "unresolved", value |-> Undefined, error |-> ""]

\* No page is mounted. A page holds the position of its fetcher, the document
\* the fetcher has retrieved, and the refs of the handles whose whenReady() the
\* fetcher has awaited.
NoPage == [kind |-> "none", ref |-> 0, pc |-> "done", doc |-> NoDoc, awaited |-> {}]

\* enlivenModelDocument: the live model built from a retrieved document.
enlivenModelDocument(refId, doc) == [refId |-> refId, doc |-> doc]

\* ------------------------------------------------------------------ creation
\* CreateModel mounts (route "/"): its resource sends new_ref with a new model
\* document, the document itself being the argument: the request has no
\* permissions.
CreateModelMount ==
    /\ resource.state # "pending"
    /\ newRefReq = Null
    /\ FreeRefs # {}
    /\ page' = [kind |-> "create", ref |-> 0, pc |-> "new_ref", doc |-> NoDoc,
                awaited |-> {}]
    /\ resource' = Pending
    /\ requests' = <<>>
    /\ newRefReq' = [from |-> "CreateModel", content |-> newModelDocument,
                     permissions |-> Undefined]
    /\ UNCHANGED <<store>>
    /\ UNCHANGED editVars
    /\ UNCHANGED syncVars
    /\ UNCHANGED simVars

\* ModelDocumentEditor: createAnalysis(props.liveModel.refId), up to its await.
CreateAnalysisClick ==
    /\ page.kind = "model"
    /\ resource.state = "ready"
    /\ newRefReq = Null
    /\ FreeRefs # {}
    /\ newRefReq' = [from |-> "createAnalysis",
                     content |-> newAnalysisDocument(resource.value.refId),
                     permissions |-> [anyone |-> "Read"]]
    /\ UNCHANGED <<store, page, resource, requests>>
    /\ UNCHANGED editVars
    /\ UNCHANGED syncVars
    /\ UNCHANGED simVars

\* ModelDocumentEditor: createDiagram(props.liveModel.refId), up to its await.
CreateDiagramClick ==
    /\ page.kind = "model"
    /\ resource.state = "ready"
    /\ newRefReq = Null
    /\ FreeRefs # {}
    /\ newRefReq' = [from |-> "createDiagram",
                     content |-> newDiagramDocument(resource.value.refId),
                     permissions |-> [anyone |-> "Read"]]
    /\ UNCHANGED <<store, page, resource, requests>>
    /\ UNCHANGED editVars
    /\ UNCHANGED syncVars
    /\ UNCHANGED simVars

\* navigate(`/diagram/${newRef}`): none of the routes matches the path, the
\* model page is unmounted and no component is mounted in its place.
NoRouteMatched(ref) ==
    /\ page' = [kind |-> "diagram", ref |-> ref, doc |-> NoDoc, awaited |-> {},
                pc |-> "done"]
    /\ resource' = Unresolved
    /\ requests' = <<>>

\* The mount of the page a navigation leads to: its resource starts loading
\* and, on the analysis page, the fetcher calls retrieveDoc(params.ref).
Mounted(kind, ref) ==
    /\ page' = [kind |-> kind, ref |-> ref, doc |-> NoDoc, awaited |-> {},
                pc |-> IF kind = "model" THEN "getLiveDoc" ELSE "retrieveDoc"]
    /\ resource' = Pending
    /\ requests' = <<ref>>

\* The return of new_ref, were the caller to send the request again when the
\* result is not Ok.
NewRefReplyRetrying ==
    /\ newRefReq # Null
    /\ \E ok \in BOOLEAN :
        IF ok /\ FreeRefs # {}
        THEN LET ref == CHOOSE r \in FreeRefs : \A q \in FreeRefs : r <= q
             IN /\ store' = [store EXCEPT ![ref] = newRefReq.content]
                /\ newRefReq' = Null
                /\ IF newRefReq.from = "CreateModel"
                   THEN Mounted("model", ref)
                   ELSE IF newRefReq.from = "createAnalysis"
                   THEN Mounted("analysis", ref)
                   ELSE NoRouteMatched(ref)
        ELSE /\ UNCHANGED <<store, page, requests, resource>>
             /\ newRefReq' = [from |-> newRefReq.from, content |-> newRefReq.content,
                              permissions |-> newRefReq.permissions, attempt |-> 2]
    /\ UNCHANGED editVars
    /\ UNCHANGED syncVars
    /\ UNCHANGED simVars

\* new_ref returns. Ok: the document is stored under a fresh ref and the
\* caller navigates to it. Otherwise (the request failed, or the server has
\* no ref left) the caller's invariant throws.
NewRefReply ==
    /\ newRefReq # Null
    /\ newRefReq' = Null
    /\ \E ok \in BOOLEAN :
        IF ok /\ FreeRefs # {}
        THEN LET ref == CHOOSE r \in FreeRefs : \A q \in FreeRefs : r <= q
             IN /\ store' = [store EXCEPT ![ref] = newRefReq.content]
                /\ IF newRefReq.from = "CreateModel"
                   THEN Mounted("model", ref)
                   ELSE IF newRefReq.from = "createAnalysis"
                   THEN Mounted("analysis", ref)
                   ELSE NoRouteMatched(ref)
        ELSE /\ UNCHANGED <<store, page, requests>>
             /\ resource' = IF newRefReq.from = "CreateModel"
                            THEN Errored("Failed to create model")
                            ELSE resource
    /\ UNCHANGED editVars
    /\ UNCHANGED syncVars
    /\ UNCHANGED simVars

\* Another client stores a document that refers to a stored document.
StoreElsewhere ==
    \E m \in Stored :
      \E doc \in StoredElsewhere(m) :
        /\ FreeRefs # {}
        /\ store' = [store EXCEPT
                       ![CHOOSE r \in FreeRefs : \A q \in FreeRefs : r <= q] = doc]
        /\ UNCHANGED <<page, resource, requests, newRefReq>>
        /\ UNCHANGED editVars
        /\ UNCHANGED syncVars
        /\ UNCHANGED simVars
    /\ UNCHANGED syncVars

\* ------------------------------------------------------------------ loading
\* The user opens /model/:ref or /analysis/:ref.
Navigate ==
    \E kind \in {"model", "analysis"}, ref \in Refs :
        /\ resource.state # "pending"
        /\ newRefReq = Null
        /\ Mounted(kind, ref)
        /\ UNCHANGED <<store, newRefReq>>
        /\ UNCHANGED editVars
        /\ UNCHANGED syncVars
        /\ UNCHANGED simVars
    /\ UNCHANGED syncVars

\* ModelPage's fetcher after `await getLiveDoc(rpc, repo, refId)`: the live
\* model is built from whatever document came back.
ModelPageLoaded ==
    /\ page.kind = "model"
    /\ page.pc = "getLiveDoc"
    /\ \E ok \in BOOLEAN :
        IF ok /\ store[page.ref] # NoDoc
        THEN /\ resource' = Ready(enlivenModelDocument(page.ref, store[page.ref]))
             /\ page' = [page EXCEPT !.pc = "done", !.doc = store[page.ref]]
        ELSE /\ resource' = Errored("retrieval failed")
             /\ page' = [page EXCEPT !.pc = "done"]
    /\ UNCHANGED <<store, requests, newRefReq>>
    /\ UNCHANGED editVars
    /\ UNCHANGED syncVars
    /\ UNCHANGED simVars

\* AnalysisPage's fetcher after `await retrieveDoc(client, params.ref, repo)`.
AnalysisDocRetrieved ==
    /\ page.kind = "analysis"
    /\ page.pc = "retrieveDoc"
    /\ \E ok \in BOOLEAN :
        IF ok /\ store[page.ref] # NoDoc
        THEN /\ page' = [page EXCEPT !.pc = "whenReady", !.doc = store[page.ref]]
             /\ UNCHANGED resource
        ELSE /\ resource' = Errored("retrieval failed")
             /\ page' = [page EXCEPT !.pc = "done"]
    /\ UNCHANGED <<store, requests, newRefReq>>
    /\ UNCHANGED editVars
    /\ UNCHANGED syncVars
    /\ UNCHANGED simVars

\* The type check, were it missing.
IsAnalysisDocumentUnchecked(doc) == TRUE

\* invariant(doc.type === "analysis", ...).
IsAnalysisDocument(doc) == TypeOf(doc) = "analysis"

\* doc.modelRef.__extern__.refId: undefined when a property on the way is
\* missing (the read then throws a TypeError).
ModelRefIdOf(doc) ==
    LET extern == Get(Get(doc, "modelRef"), "__extern__")
    IN IF extern = Undefined THEN Undefined ELSE [refId |-> extern.refId]

\* AnalysisPage's fetcher after `await docHandle.whenReady()`: the type check,
\* then the call of retrieveDoc for the model.
AnalysisDocReady ==
    /\ page.kind = "analysis"
    /\ page.pc = "whenReady"
    /\ IF ~IsAnalysisDocument(page.doc)
       THEN /\ resource' = Errored("Expected analysis document")
            /\ page' = [page EXCEPT !.pc = "done", !.awaited = @ \cup {page.ref}]
            /\ UNCHANGED requests
       ELSE IF ModelRefIdOf(page.doc) = Undefined
       THEN /\ resource' = Errored("TypeError")
            /\ page' = [page EXCEPT !.pc = "done", !.awaited = @ \cup {page.ref}]
            /\ UNCHANGED requests
       ELSE /\ requests' = Append(requests, ModelRefIdOf(page.doc).refId)
            /\ page' = [page EXCEPT !.pc = "retrieveModel",
                                    !.awaited = @ \cup {page.ref}]
            /\ UNCHANGED resource
    /\ UNCHANGED <<store, newRefReq>>
    /\ UNCHANGED editVars
    /\ UNCHANGED syncVars
    /\ UNCHANGED simVars

\* AnalysisPage's fetcher after the model's `await retrieveDoc(...)`: the live
\* model is built from whatever document came back and the live analysis is
\* returned.
AnalysisModelRetrieved ==
    /\ page.kind = "analysis"
    /\ page.pc = "retrieveModel"
    /\ LET modelRefId == ModelRefIdOf(page.doc).refId
       IN \E ok \in BOOLEAN :
            IF ok /\ store[modelRefId] # NoDoc
            THEN resource' = Ready([refId |-> page.ref,
                                    doc |-> page.doc,
                                    liveModel |-> enlivenModelDocument(
                                                      modelRefId, store[modelRefId])])
            ELSE resource' = Errored("retrieval failed")
    /\ page' = [page EXCEPT !.pc = "done"]
    /\ UNCHANGED <<store, requests, newRefReq>>
    /\ UNCHANGED editVars
    /\ UNCHANGED syncVars
    /\ UNCHANGED simVars

InitLoad ==
    /\ store = [r \in Refs |-> NoDoc]
    /\ page = NoPage
    /\ resource = Unresolved
    /\ requests = <<>>
    /\ newRefReq = Null

NextLoad ==
    \/ CreateModelMount
    \/ CreateDiagramClick
    \/ CreateAnalysisClick
    \/ NewRefReply
    \/ StoreElsewhere
    \/ Navigate
    \/ ModelPageLoaded
    \/ AnalysisDocRetrieved
    \/ AnalysisDocReady
    \/ AnalysisModelRetrieved

\* ------------------------------------------------------------------ replication
\* The actors that edit one replicated document, each on its own replica.
Actors == {1, 2}

\* Identifiers of changes: a Lamport counter and the actor.
OpId(ctr, actor) == [ctr |-> ctr, actor |-> actor]

Less(a, b) == a.ctr < b.ctr \/ (a.ctr = b.ctr /\ a.actor < b.actor)

\* The head of a list, and the change that created the document with an empty
\* notebook.
HeadRef == OpId(0, 0)

NoMutation == [op |-> "none", index |-> 0, cell |-> Null]

InitialPut ==
    [id |-> HeadRef, kind |-> "put", f |-> NoMutation, seen |-> {},
     after |-> HeadRef, list |-> HeadRef, pred |-> {}, init |-> <<>>]

\* The next Lamport counter of a replica.
NextCtr(ops) ==
    1 + (CHOOSE c \in {o.id.ctr : o \in ops} : \A o \in ops : o.id.ctr <= c)

\* The assignment of the notebook field that wins: of the assignments no other
\* assignment has overwritten, the one with the greatest id.
Heads(ops) ==
    {o \in ops : o.kind = "put" /\ \A q \in ops : ~(q.kind = "put" /\ o.id \in q.pred)}

WinningPut(ops) ==
    CHOOSE o \in Heads(ops) : \A q \in Heads(ops) : q = o \/ Less(q.id, o.id)

\* The elements of a list in document order: the elements inserted after the
\* same element are ordered by decreasing id, each followed by the elements
\* inserted after it.
RECURSIVE ElementsAfter(_, _)
RECURSIVE InOrder(_, _)
ElementsAfter(ins, ref) == InOrder(ins, {o \in ins : o.after = ref})

InOrder(ins, kids) ==
    IF kids = {} THEN <<>>
    ELSE LET first == CHOOSE k \in kids : \A j \in kids : j = k \/ Less(j.id, k.id)
         IN <<first>> \o ElementsAfter(ins, first.id) \o InOrder(ins, kids \ {first})

\* The elements of the notebook's list that no change has deleted.
VisibleElements(ops) ==
    LET put == WinningPut(ops)
        ins == {o \in ops : o.kind = "ins" /\ o.list = put.id}
        deleted == {o.after : o \in {d \in ops : d.kind = "del"}}
    IN SelectSeq(ElementsAfter(ins, HeadRef), LAMBDA o : o.id \notin deleted)

RECURSIVE CellsOf(_)
CellsOf(elems) ==
    IF elems = <<>> THEN <<>> ELSE <<Head(elems).f.cell>> \o CellsOf(Tail(elems))

\* doc.notebook.cells as a replica shows it.
NotebookOf(ops) == WinningPut(ops).init \o CellsOf(VisibleElements(ops))

\* The mutation f applied to a plain copy of the cells.
ApplyMutation(cells, f) ==
    IF f.op = "insertAt" THEN insertAt(cells, f.index, f.cell)
    ELSE removeAt(cells, f.index)

\* changeNotebook, were it to assign a mutated copy of the notebook to the
\* document (doc.notebook = f(copy)) instead of mutating the notebook in place.
changeNotebookByAssignment(ops, actor, f) ==
    LET id == OpId(NextCtr(ops), actor)
    IN ops \cup {[id |-> id, kind |-> "put", f |-> f,
                  seen |-> {o.id : o \in ops},
                  after |-> HeadRef, list |-> id,
                  pred |-> {h.id : h \in Heads(ops)},
                  init |-> ApplyMutation(NotebookOf(ops), f)]}

\* changeNotebook(f): changeDoc((doc) => f(doc.notebook)) / docHandle.change(
\* (doc) => f(doc.notebook)). The mutation acts on the replicated list itself:
\* an insertion after the element before the index, or the deletion of the
\* element at the index.
changeNotebook(ops, actor, f) ==
    LET id == OpId(NextCtr(ops), actor)
        elems == VisibleElements(ops)
    IN ops \cup {[id |-> id,
                  kind |-> IF f.op = "insertAt" THEN "ins" ELSE "del",
                  f |-> f,
                  seen |-> {o.id : o \in ops},
                  after |-> IF f.op = "insertAt"
                            THEN (IF f.index = 1 THEN HeadRef ELSE elems[f.index - 1].id)
                            ELSE elems[f.index].id,
                  list |-> WinningPut(ops).id,
                  pred |-> {},
                  init |-> <<>>]}

\* All the changes made so far.
AllChanges == UNION {replicas[a] : a \in Actors}

\* An actor inserts a new cell at an index of its notebook.
ActorInsertAt ==
    \E a \in Actors :
      \E i \in 1..(Len(NotebookOf(replicas[a])) + 1) :
        /\ Cardinality(AllChanges) <= MaxChanges
        /\ nextUuid <= MaxUuid
        /\ replicas' = [replicas EXCEPT ![a] =
               changeNotebook(@, a, [op |-> "insertAt", index |-> i,
                                     cell |-> newRichTextCell(nextUuid)])]
        /\ nextUuid' = nextUuid + 1
        /\ UNCHANGED <<theory, docName, notebook, validated, cellValidatedModel,
                       objectIndex>>
        /\ UNCHANGED loadVars
        /\ UNCHANGED simVars

\* An actor removes the cell at an index of its notebook.
ActorRemoveAt ==
    \E a \in Actors :
      \E i \in 1..Len(NotebookOf(replicas[a])) :
        /\ Cardinality(AllChanges) <= MaxChanges
        /\ replicas' = [replicas EXCEPT ![a] =
               changeNotebook(@, a, [op |-> "removeAt", index |-> i,
                                     cell |-> NotebookOf(replicas[a])[i]])]
        /\ UNCHANGED editVars
        /\ UNCHANGED loadVars
        /\ UNCHANGED simVars

\* The replication primitive merges the changes of one replica into another.
Merge ==
    \E a \in Actors, b \in Actors :
        /\ a # b
        /\ ~(replicas[b] \subseteq replicas[a])
        /\ replicas' = [replicas EXCEPT ![a] = @ \cup replicas[b]]
        /\ UNCHANGED editVars
        /\ UNCHANGED loadVars
        /\ UNCHANGED simVars

\* The assignments of the theory field no other assignment has overwritten,
\* and the theory a replica shows: that of the assignment with the greatest
\* id among them (the replication primitive's tie-break of concurrent writes
\* to one scalar field), the theory of newModelDocument() when there is none.
TheoryHeads(ops) ==
    LET puts == {o \in ops : o.kind = "theory"}
    IN {o \in puts : \A q \in puts : o.id \notin q.pred}

TheoryOf(ops) ==
    IF TheoryHeads(ops) = {} THEN newModelDocument.theory
    ELSE (CHOOSE o \in TheoryHeads(ops) :
              \A q \in TheoryHeads(ops) : q = o \/ Less(q.id, o.id)).theory

\* changeDoc((model) => { model.theory = id }) on a replica.
changeTheory(ops, actor, id) ==
    ops \cup {[id |-> OpId(NextCtr(ops), actor), kind |-> "theory", f |-> NoMutation,
               seen |-> {o.id : o \in ops}, after |-> HeadRef, list |-> HeadRef,
               pred |-> {h.id : h \in TheoryHeads(ops)}, init |-> <<>>,
               theory |-> id]}

\* The selector's `disabled`, on the snapshot of a replica.
TheorySelectorDisabledIn(ops) ==
    \E i \in 1..Len(NotebookOf(ops)) : NotebookOf(ops)[i].tag = "formal"

\* An actor picks a theory in the selector of its ModelPane.
ActorSetTheory ==
    \E a \in Actors, id \in Theories :
        /\ Cardinality(AllChanges) <= MaxChanges
        /\ ~TheorySelectorDisabledIn(replicas[a])
        /\ id # TheoryOf(replicas[a])
        /\ replicas' = [replicas EXCEPT ![a] = changeTheory(@, a, id)]
        /\ UNCHANGED editVars
        /\ UNCHANGED loadVars
        /\ UNCHANGED simVars

\* An actor inserts a formal cell made by one of the cell constructors of its
\* notebook editor: those of the theory its snapshot shows.
ActorInsertFormalCell ==
    \E a \in Actors :
      \E i \in 1..(Len(NotebookOf(replicas[a])) + 1),
         k \in 1..Len(ModelTypes(TheoryOf(replicas[a]))) :
        /\ Cardinality(AllChanges) <= MaxChanges
        /\ nextUuid + 1 <= MaxUuid
        /\ replicas' = [replicas EXCEPT ![a] =
               changeNotebook(@, a,
                   [op |-> "insertAt", index |-> i,
                    cell |-> construct(ModelTypes(TheoryOf(replicas[a]))[k],
                                       nextUuid + 1, nextUuid)])]
        /\ nextUuid' = nextUuid + 2
        /\ UNCHANGED <<theory, docName, notebook, validated, cellValidatedModel,
                       objectIndex>>
        /\ UNCHANGED loadVars
        /\ UNCHANGED simVars

InitSync == replicas = [a \in Actors |-> {InitialPut}]

\* Two actors editing the theory and the formal cells of one model document.
NextTheorySync ==
    \/ ActorSetTheory
    \/ ActorInsertFormalCell
    \/ ActorRemoveAt
    \/ Merge

NextSync ==
    \/ ActorInsertAt
    \/ ActorRemoveAt
    \/ Merge

\* ------------------------------------------------------------------ simulation
\* The derived state of the diagram after a change of the diagram.
DeriveDiagram ==
    /\ validatedDiagram' = validateDiagram(validated, diagram')
    /\ diagramObjectIndex' = indexObjects(diagram')
    /\ UNCHANGED <<decapodesContent, kernel, simResult, inflight, mounted,
                   runningKernels>>
    /\ UNCHANGED <<theory, docName, notebook, validated, cellValidatedModel,
                   objectIndex>>
    /\ UNCHANGED loadVars
    /\ UNCHANGED syncVars

\* The diagram's editor inserts an object declaration.
InsertDiagramObject ==
    \E i \in 1..(Len(diagram) + 1) :
        /\ Len(diagram) < MaxDiagramCells
        /\ nextUuid <= MaxUuid
        /\ diagram' = insertAt(diagram, i, newDiagramObjectDecl(nextUuid))
        /\ nextUuid' = nextUuid + 1
        /\ DeriveDiagram

\* The diagram's editor sets the model object a diagram object lies over.
SetOver ==
    \E i \in 1..Len(diagram), ob \in ObChoices :
        /\ diagram[i].over # ob
        /\ diagram' = [diagram EXCEPT ![i].over = ob]
        /\ UNCHANGED nextUuid
        /\ DeriveDiagram

\* The diagram's editor sets the name of a diagram object.
SetDiagramObjectName ==
    \E i \in 1..Len(diagram), n \in Names :
        /\ diagram[i].name # n
        /\ diagram' = [diagram EXCEPT ![i].name = n]
        /\ UNCHANGED nextUuid
        /\ DeriveDiagram

\* The diagram's editor removes a declaration.
RemoveDiagramCell ==
    \E i \in 1..Len(diagram) :
        /\ diagram' = removeAt(diagram, i)
        /\ UNCHANGED nextUuid
        /\ DeriveDiagram

\* plotVariableSchema: the Plot column's setContent on the row of a diagram
\* object, content.plotVariables[ob.id] = value, the flag shown being
\* content.plotVariables[ob.id] ?? false.
TogglePlotVariable ==
    \E i \in 1..Len(diagram) :
        /\ mounted
        /\ diagram[i].tag = "object"
        /\ LET id == diagram[i].id
               shown == IF id \in DOMAIN decapodesContent.plotVariables
                        THEN decapodesContent.plotVariables[id] ELSE FALSE
           IN decapodesContent' =
                [decapodesContent EXCEPT !.plotVariables = (id :> ~shown) @@ @]
        /\ UNCHANGED <<diagram, validatedDiagram, diagramObjectIndex, kernel,
                       simResult, inflight, mounted, runningKernels>>
        /\ UNCHANGED editVars
        /\ UNCHANGED loadVars
        /\ UNCHANGED syncVars

\* Object.keys(content.plotVariables).filter((v) => content.plotVariables[v]).
plotVariablesOf(cont) == {v \in DOMAIN cont.plotVariables : cont.plotVariables[v]}

\* makeSimulationData, were it to give up only on a diagram whose validation
\* result is Err.
makeSimulationDataUnlessErr(vd, idToName, modelJudgments, cont) ==
    IF vd # Undefined /\ vd.result.tag = "Err" THEN Undefined
    ELSE [diagram |-> IF vd = Undefined THEN <<>>
                      ELSE fromCatlogDiagram(vd.diagram, idToName),
          model |-> modelJudgments,
          scalars |-> cont.scalars,
          plotVariables |-> plotVariablesOf(cont)]

\* makeSimulationData, were it to give up only on an undefined validated
\* diagram.
makeSimulationDataIfDefined(vd, idToName, modelJudgments, cont) ==
    IF vd = Undefined THEN Undefined
    ELSE [diagram |-> fromCatlogDiagram(vd.diagram, idToName),
          model |-> modelJudgments,
          scalars |-> cont.scalars,
          plotVariables |-> plotVariablesOf(cont)]

\* makeSimulationData(liveDiagram, content).
makeSimulationData(vd, idToName, modelJudgments, cont) ==
    IF vd = Undefined THEN Undefined
    ELSE IF vd.result.tag # "Ok" THEN Undefined
    ELSE [diagram |-> fromCatlogDiagram(vd.diagram, idToName),
          model |-> modelJudgments,
          scalars |-> cont.scalars,
          plotVariables |-> plotVariablesOf(cont)]

\* The kernel resource while its fetcher is at the given await.
KernelPending(pc) == [state |-> "pending", value |-> Undefined, error |-> "", pc |-> pc]

KernelReady == [state |-> "ready", value |-> [tag |-> "kernel"], error |-> "", pc |-> "done"]

KernelErrored(error) ==
    [state |-> "errored", value |-> Undefined, error |-> error, pc |-> "done"]

KernelUnmounted == [state |-> "unresolved", value |-> Undefined, error |-> "", pc |-> "done"]

\* The msg_id of the header of the init code's request and of a simulation's
\* request: two requests of one kernel never have the same.
InitCodeMsgId == "init"

RunMsgId == "run"

\* kernel.requestExecute({code: makeSimulationCode(data)}) with the fetcher's
\* local `result`, undefined at first.
Request(data) == [data |-> data, msgId |-> RunMsgId, result |-> Undefined]

\* The messages of the kernel's iopub channel: the type, the msg_id of the
\* parent header, and content.data?.["application/json"] (undefined when the
\* message has none, else the output of the request it answers).
IOPubMessages ==
    {[msg_type |-> t, parent_msg_id |-> p, json |-> j] :
        t \in {"execute_result", "stream"},
        p \in {RunMsgId, InitCodeMsgId},
        j \in {Undefined} \cup {[of |-> q] : q \in {RunMsgId, InitCodeMsgId}}}

\* future.onIOPub, were it to take the result of any execute_result message.
onIOPubAnyParent(request, msg) ==
    IF msg.msg_type = "execute_result"
    THEN [request EXCEPT !.result = msg.json]
    ELSE request

\* future.onIOPub(msg): the request with the fetcher's `result` afterwards.
onIOPub(request, msg) ==
    IF msg.msg_type = "execute_result" /\ msg.parent_msg_id = request.msgId
    THEN [request EXCEPT !.result = msg.json]
    ELSE request

\* The fetcher of the result resource, up to its await: the data is made from
\* the diagram and the model as they are now; without data the resource
\* resolves to undefined, with data the request is sent.
StartSimulation ==
    LET data == makeSimulationData(validatedDiagram, diagramObjectIndex,
                                   formalJudgments(notebook), decapodesContent)
    IN IF data = Undefined
       THEN /\ simResult' = Ready(Undefined)
            /\ inflight' = Null
       ELSE /\ simResult' = Pending
            /\ inflight' = Request(data)

SimUnchanged ==
    /\ UNCHANGED <<diagram, validatedDiagram, diagramObjectIndex, decapodesContent>>
    /\ UNCHANGED mounted
    /\ UNCHANGED editVars
    /\ UNCHANGED loadVars
    /\ UNCHANGED syncVars

\* `await kernelManager.startNew(...)` returns or rejects.
KernelStartNewDone ==
    /\ kernel.state = "pending"
    /\ kernel.pc = "startNew"
    /\ \E ok \in BOOLEAN :
         IF ok
         THEN /\ kernel' = KernelPending("initCode")
              /\ runningKernels' = runningKernels + 1
         ELSE /\ kernel' = KernelErrored("kernel not started")
              /\ UNCHANGED runningKernels
    /\ UNCHANGED <<simResult, inflight>>
    /\ SimUnchanged

\* The reply of the init code, were the fetcher to throw on status error
\* without shutting the kernel down.
KernelInitReplyNoShutdown ==
    /\ kernel.state = "pending"
    /\ kernel.pc = "initCode"
    /\ \E status \in {"ok", "error"} :
         IF status = "error"
         THEN /\ kernel' = KernelErrored("traceback")
              /\ UNCHANGED <<simResult, inflight>>
         ELSE /\ kernel' = KernelReady
              /\ IF mounted THEN StartSimulation
                 ELSE UNCHANGED <<simResult, inflight>>
    /\ UNCHANGED runningKernels
    /\ SimUnchanged

\* `await future.done` of the init code returns: on status error the kernel is
\* shut down; otherwise the kernel resource is ready and, its source now being
\* defined, the result resource runs its fetcher (unless the component has
\* been disposed: a disposed computation does not run again).
KernelInitReply ==
    /\ kernel.state = "pending"
    /\ kernel.pc = "initCode"
    /\ \E status \in {"ok", "error"} :
         IF status = "error"
         THEN /\ kernel' = KernelPending("shutdown")
              /\ UNCHANGED <<simResult, inflight>>
         ELSE /\ kernel' = KernelReady
              /\ IF mounted THEN StartSimulation
                 ELSE UNCHANGED <<simResult, inflight>>
    /\ UNCHANGED runningKernels
    /\ SimUnchanged

\* `await kernel.shutdown()` returns and the fetcher throws.
KernelShutdownDone ==
    /\ kernel.state = "pending"
    /\ kernel.pc = "shutdown"
    /\ kernel' = KernelErrored("traceback")
    /\ runningKernels' = runningKernels - 1
    /\ UNCHANGED <<simResult, inflight>>
    /\ SimUnchanged

\* header: the restart button, offered when the kernel resource is in error.
RestartKernel ==
    /\ mounted
    /\ kernel.state = "errored"
    /\ simResult.state # "pending"
    /\ kernel' = KernelPending("startNew")
    /\ UNCHANGED <<simResult, inflight, runningKernels>>
    /\ SimUnchanged

\* header: the re-run button, offered when nothing is loading and the kernel
\* is not in error.
RerunSimulation ==
    /\ mounted
    /\ kernel.state = "ready"
    /\ simResult.state # "pending"
    /\ StartSimulation
    /\ UNCHANGED <<kernel, runningKernels>>
    /\ SimUnchanged

\* The kernel publishes a message while the simulation runs: the handler set
\* on the future is called with it. A message the kernel publishes for a
\* request carries that request's msg_id and output.
IOPubMessage ==
    /\ inflight # Null
    /\ \E msg \in IOPubMessages :
         /\ msg.json # Undefined => msg.json.of = msg.parent_msg_id
         /\ inflight' = onIOPub(inflight, msg)
    /\ UNCHANGED <<kernel, simResult, runningKernels>>
    /\ SimUnchanged

\* `await future.done` of the simulation returns.
SimulationReply ==
    /\ inflight # Null
    /\ \E status \in {"ok", "error"} :
         simResult' = IF status = "error" THEN Errored("traceback")
                      ELSE IF inflight.result = Undefined
                      THEN Errored("Result not received from the simulator")
                      ELSE Ready([from |-> inflight.data, result |-> inflight.result])
    /\ inflight' = Null
    /\ UNCHANGED <<kernel, runningKernels>>
    /\ SimUnchanged

\* The Decapodes component is disposed: onCleanup(() => kernel()?.shutdown())
\* shuts the kernel down if the kernel resource holds one, and does nothing
\* while the resource is loading (kernel() is undefined then).
Unmount ==
    /\ mounted
    /\ mounted' = FALSE
    /\ runningKernels' = IF kernel.state = "ready" THEN runningKernels - 1
                         ELSE runningKernels
    /\ UNCHANGED <<diagram, validatedDiagram, diagramObjectIndex, decapodesContent,
                   kernel, simResult, inflight>>
    /\ UNCHANGED editVars
    /\ UNCHANGED loadVars
    /\ UNCHANGED syncVars

\* The body's Switch, were the plot's Match to come before that of the invalid
\* diagram.
DisplayedPlotFirst ==
    IF kernel.state = "pending" THEN "Loading the AlgebraicJulia service..."
    ELSE IF kernel.state = "errored" THEN "Failed to load AlgebraicJulia service"
    ELSE IF simResult.state = "pending" THEN "Running the simulation..."
    ELSE IF simResult.state = "errored" THEN "Simulation error"
    ELSE IF simResult.value # Undefined THEN "PDEPlot2D"
    ELSE IF validatedDiagram # Undefined /\ validatedDiagram.result.tag = "Err"
    THEN "Modeling error"
    ELSE "nothing"

\* The body's Switch: what the first Match whose condition holds shows.
Displayed ==
    IF kernel.state = "pending" THEN "Loading the AlgebraicJulia service..."
    ELSE IF kernel.state = "errored" THEN "Failed to load AlgebraicJulia service"
    ELSE IF simResult.state = "pending" THEN "Running the simulation..."
    ELSE IF simResult.state = "errored" THEN "Simulation error"
    ELSE IF validatedDiagram # Undefined /\ validatedDiagram.result.tag = "Err"
    THEN "Modeling error"
    ELSE IF simResult.value # Undefined THEN "PDEPlot2D"
    ELSE "nothing"

\* The model the diagram lives in, as loaded: an object and a morphism from it
\* to itself.
LoadedModelNotebook ==
    << newFormalCell(2, newObjectDecl(1, ModelTypes("simple-olog")[1].obType)),
       newFormalCell(4, [newMorphismDecl(3, ModelTypes("simple-olog")[2].morType)
                            EXCEPT !.dom = BasicOb(1), !.cod = BasicOb(1)]) >>

InitSimIdle ==
    /\ diagram = <<>>
    /\ validatedDiagram = validateDiagram(validateModel("simple-olog", <<>>), <<>>)
    /\ diagramObjectIndex = indexObjects(<<>>)
    /\ decapodesContent = [scalars |-> <<>>, plotVariables |-> <<>>]
    /\ kernel = KernelUnmounted
    /\ simResult = Unresolved
    /\ inflight = Null
    /\ mounted = FALSE
    /\ runningKernels = 0

\* The Decapodes analysis of a new diagram in the loaded model, just mounted:
\* the kernel resource has started its fetcher.
InitSim ==
    /\ theory = "simple-olog"
    /\ docName = ""
    /\ notebook = LoadedModelNotebook
    /\ nextUuid = 5
    /\ validated = validateModel("simple-olog", formalJudgments(LoadedModelNotebook))
    /\ cellValidatedModel =
         validatedModelMemo(validationResult(
             validateModel("simple-olog", formalJudgments(LoadedModelNotebook))))
    /\ objectIndex = indexObjects(formalJudgments(LoadedModelNotebook))
    /\ diagram = <<>>
    /\ diagramObjectIndex = indexObjects(<<>>)
    /\ validatedDiagram =
         validateDiagram(
             validateModel("simple-olog", formalJudgments(LoadedModelNotebook)), <<>>)
    /\ decapodesContent = [scalars |-> <<>>, plotVariables |-> <<>>]
    /\ kernel = KernelPending("startNew")
    /\ simResult = Unresolved
    /\ inflight = Null
    /\ mounted = TRUE
    /\ runningKernels = 0
    /\ InitLoad
    /\ InitSync

NextSim ==
    \/ SetName
    \/ SetDom
    \/ SetCod
    \/ RemoveCell
    \/ InsertDiagramObject
    \/ SetOver
    \/ SetDiagramObjectName
    \/ RemoveDiagramCell
    \/ KernelStartNewDone
    \/ KernelInitReply
    \/ KernelShutdownDone
    \/ RestartKernel
    \/ RerunSimulation
    \/ IOPubMessage
    \/ SimulationReply
    \/ Unmount

\* ------------------------------------------------------------------ decapodes service
\* The service (decapodes.jl) that the kernel runs on a simulation request.
\* Strings are ASCII here: "partial-t" stands for the name written with the
\* partial-derivative sign, "#n" for the anonymous variable name made of a
\* bullet and n.

\* The outcome of a conversion: a symbol, or the exception thrown.
Converted(sym) == [sym |-> sym, error |-> ""]

Thrown(error) == [sym |-> "", error |-> error]

\* lowercase(name), on the names in use.
Lowercase(name) == IF name = "0-Form" THEN "0-form" ELSE name

\* to_decapode_theory(::Val{:Ob}, name).
to_decapode_theory_Ob(name) ==
    LET n == Lowercase(name)
    IN IF n \in {"0-form", "primal 0-form"} THEN Converted("Form0")
       ELSE IF n \in {"1-form", "primal 1-form"} THEN Converted("Form1")
       ELSE IF n = "dual 0-form" THEN Converted("DualForm0")
       ELSE Thrown("ImplError")

\* replace(name, " " => ""), on the names in use.
RemoveSpaces(name) ==
    IF name = "d *" THEN "d*"
    ELSE IF name = "partial t" THEN "partialt"
    ELSE name

\* to_decapode_theory(::Val{:Hom}, name).
to_decapode_theory_Hom(name) ==
    LET n == RemoveSpaces(name)
    IN IF n = "partial-t" THEN Converted("partial_t")
       ELSE IF n = "d" THEN Converted("d0")
       ELSE IF n = "d*" THEN Converted("dual_d1")
       ELSE IF n = "diffusivity" THEN Converted("diffusivity")
       ELSE IF n = "-" THEN Converted("neg")
       ELSE Thrown("ImplError")

\* Theory(): a dictionary from ids to theory elements, and the exception that
\* ended its construction, if any.
EmptyTheory == [data |-> <<>>, error |-> ""]

\* add_to_theory!(theory, content, Val(:Ob)).
add_to_theory_Ob(th, content) ==
    LET name == to_decapode_theory_Ob(content.name)
    IN IF name.error # "" THEN [th EXCEPT !.error = name.error]
       ELSE [th EXCEPT !.data = (content.id :> [name |-> name.sym, val |-> Null]) @@ @]

\* add_to_theory!(theory, content, Val(:Hom)): the name is converted, then
\* dom and cod are read (a null dom or cod has no :content).
add_to_theory_Hom(th, content) ==
    LET name == to_decapode_theory_Hom(content.name)
    IN IF name.error # "" THEN [th EXCEPT !.error = name.error]
       ELSE IF content.dom = Null \/ content.cod = Null
       THEN [th EXCEPT !.error = "MethodError"]
       ELSE [th EXCEPT !.data =
                (content.id :> [name |-> name.sym,
                                val |-> [dom |-> content.dom.content,
                                         cod |-> content.cod.content]]) @@ @]

\* Theory(model): every cell of the model in order, until one throws. On a
\* cell that is neither an object nor a morphism the match evaluates
\* throw(ImplError(x)) with x the cell itself: ImplError's field is a String,
\* its constructor converts its argument to String, and the conversion of a
\* JSON object has no method: the exception thrown is a MethodError.
RECURSIVE TheoryFrom(_, _)
TheoryFrom(th, model) ==
    IF model = <<>> \/ th.error # "" THEN th
    ELSE LET cell == Head(model)
         IN TheoryFrom(IF cell.tag = "object" THEN add_to_theory_Ob(th, cell)
                       ELSE IF cell.tag = "morphism" THEN add_to_theory_Hom(th, cell)
                       ELSE [th EXCEPT !.error = "MethodError"],
                       Tail(model))

Theory(model) == TheoryFrom(EmptyTheory, model)

\* SummationDecapode(parse_decapode(quote end)) with the dictionaries and the
\* counter Decapode() starts from.
EmptyPode ==
    [Var |-> <<>>, Op1 |-> <<>>, TVar |-> <<>>, vars |-> <<>>, nc |-> 0,
     anons |-> <<>>, error |-> ""]

\* add_to_pode!(d, vars, theory, content, nc, Val(:Ob)).
add_to_pode_Ob(d, th, content) ==
    IF content.over = Null THEN [d EXCEPT !.error = "MethodError"]
    ELSE IF content.over.content \notin DOMAIN th.data
    THEN [d EXCEPT !.error = "KeyError"]
    ELSE LET anonymous == content.name = ""
             name == IF anonymous THEN "#" \o ToString(d.nc + 1) ELSE content.name
             var == [name |-> name, type |-> th.data[content.over.content].name]
         IN [d EXCEPT !.nc = IF anonymous THEN @ + 1 ELSE @,
                      !.Var = Append(@, var),
                      !.vars = (content.id :> (Len(d.Var) + 1)) @@ @]

\* add_to_pode! for a morphism, were it to fail on an end that is no variable
\* yet.
add_to_pode_HomFailing(d, th, content, scalars) ==
    IF content.dom = Null \/ content.cod = Null
    THEN [d EXCEPT !.error = "MethodError"]
    ELSE IF content.dom.content \in DOMAIN d.vars /\ content.cod.content \in DOMAIN d.vars
    THEN [d EXCEPT !.Op1 = Append(@, [src |-> d.vars[content.dom.content],
                                       tgt |-> d.vars[content.cod.content],
                                       op1 |-> th.data[content.over.content].name])]
    ELSE [d EXCEPT !.error = "KeyError"]

\* add_to_pode!(d, vars, theory, content, scalars, anons, Val(:Hom)): the
\* operator is added only if both of its ends are variables already.
add_to_pode_Hom(d, th, content, scalars) ==
    IF content.dom = Null \/ content.cod = Null
    THEN [d EXCEPT !.error = "MethodError"]
    ELSE LET dom == content.dom.content
             cod == content.cod.content
         IN IF dom \in DOMAIN d.vars /\ cod \in DOMAIN d.vars
            THEN IF content.over = Null THEN [d EXCEPT !.error = "MethodError"]
                 ELSE IF content.over.content \notin DOMAIN th.data
                 THEN [d EXCEPT !.error = "KeyError"]
                 ELSE LET op1 == th.data[content.over.content].name
                      IN [d EXCEPT
                            !.Op1 = Append(@, [src |-> d.vars[dom],
                                               tgt |-> d.vars[cod], op1 |-> op1]),
                            !.TVar = IF op1 = "partial_t"
                                     THEN Append(@, d.vars[cod]) ELSE @,
                            !.anons = IF content.over.content \in DOMAIN scalars
                                      THEN (op1 :> scalars[content.over.content]) @@ @
                                      ELSE @]
            ELSE d

\* Decapode(diagram, theory; scalars): every cell of the diagram in order,
\* until one throws. On a cell that is neither an object nor a morphism the
\* match evaluates cell[:content][:tag], and a cell has no :content: the
\* exception thrown is a KeyError.
RECURSIVE DecapodeFrom(_, _, _, _)
DecapodeFrom(d, cells, th, scalars) ==
    IF cells = <<>> \/ d.error # "" THEN d
    ELSE LET cell == Head(cells)
         IN DecapodeFrom(
                IF cell.tag = "object" THEN add_to_pode_Ob(d, th, cell)
                ELSE IF cell.tag = "morphism" THEN add_to_pode_Hom(d, th, cell, scalars)
                ELSE [d EXCEPT !.error = "KeyError"],
                Tail(cells), th, scalars)

Decapode(cells, th, scalars) == DecapodeFrom(EmptyPode, cells, th, scalars)

\* PodeSystem(json_string), up to the plotting variables: the theory of the
\* model, the decapode of the diagram, the names of the variables by uuid and
\* the variables to plot.
PodeSystem(data) ==
    LET th == Theory(data.model)
        d == Decapode(data.diagram, th, data.scalars)
        uuid2symb == [key \in DOMAIN d.vars |-> d.Var[d.vars[key]].name]
    IN IF th.error # "" THEN [error |-> th.error]
       ELSE IF d.error # "" THEN [error |-> d.error]
       ELSE IF ~(data.plotVariables \subseteq DOMAIN uuid2symb)
       THEN [error |-> "KeyError"]
       ELSE [error |-> "", pode |-> d, uuiddict |-> uuid2symb,
             plotvar |-> {uuid2symb[uuid] : uuid \in data.plotVariables}]

\* The kernel runs the simulation code on the request it has received: an
\* exception of the service comes back as a reply of status error, which the
\* fetcher of the result resource throws; otherwise the result is received.
RunPodeSystem ==
    /\ inflight # Null
    /\ LET system == PodeSystem(inflight.data)
       IN simResult' = IF system.error # "" THEN Errored(system.error)
                       ELSE Ready([from |-> inflight.data, system |-> system])
    /\ inflight' = Null
    /\ UNCHANGED <<kernel, runningKernels>>
    /\ SimUnchanged

\* A model of the discrete exterior calculus, as loaded: the 0-forms, and one
\* operator on them.
DecModelNotebook(morName) ==
    << newFormalCell(2, [newObjectDecl(1, ModelTypes("simple-olog")[1].obType)
                            EXCEPT !.name = "0-form"]),
       newFormalCell(4, [newMorphismDecl(3, ModelTypes("simple-olog")[2].morType)
                            EXCEPT !.name = morName,
                                   !.dom = BasicOb(1), !.cod = BasicOb(1)]) >>

\* The declarations a diagram in that model is made of: two variables, named
\* or anonymous, and an operator between them.
DiagramDecls ==
    {[newDiagramObjectDecl(id) EXCEPT !.name = n, !.over = BasicOb(1)] :
        id \in {5, 6}, n \in {"", "u"}}
    \cup
    {[tag |-> "morphism", id |-> 7, name |-> "", over |-> BasicOb(3),
      dom |-> BasicOb(dom), cod |-> BasicOb(cod)] : dom \in {5, 6}, cod \in {5, 6}}

\* The diagrams of at most MaxPodeCells cells, each declaration at most once,
\* in every order of their cells.
DiagramInputs ==
    {d \in UNION {[1..n -> DiagramDecls] : n \in 0..MaxPodeCells} :
        \A i, j \in 1..Len(d) : i # j => d[i].id # d[j].id}

\* The Decapodes analysis of a diagram of a loaded model, the kernel ready and
\* the simulation request of a valid diagram just sent.
InitPode ==
    /\ \E morName \in {"d", "partial-t"} :
         /\ notebook = DecModelNotebook(morName)
         /\ validated = validateModel("simple-olog",
                                      formalJudgments(DecModelNotebook(morName)))
         /\ cellValidatedModel =
              validatedModelMemo(validationResult(
                  validateModel("simple-olog",
                                formalJudgments(DecModelNotebook(morName)))))
         /\ objectIndex = indexObjects(formalJudgments(DecModelNotebook(morName)))
    /\ theory = "simple-olog"
    /\ docName = ""
    /\ nextUuid = 8
    /\ diagram \in DiagramInputs
    /\ validatedDiagram = validateDiagram(validated, diagram)
    /\ validatedDiagram.result.tag = "Ok"
    /\ diagramObjectIndex = indexObjects(diagram)
    /\ decapodesContent = [scalars |-> <<>>, plotVariables |-> <<>>]
    /\ kernel = KernelReady
    /\ simResult = Pending
    /\ inflight = Request(makeSimulationData(validatedDiagram, diagramObjectIndex,
                                             formalJudgments(notebook),
                                             decapodesContent))
    /\ mounted = TRUE
    /\ runningKernels = 1
    /\ InitLoad
    /\ InitSync

NextPode == RunPodeSystem

\* The cells a model sent to the service is made of: objects and an operator
\* with names the service knows (in another case, with a space) or does not
\* know, and a cell that is neither an object nor a morphism.
TheoryCells ==
    {[newObjectDecl(id, ModelTypes("simple-olog")[1].obType) EXCEPT !.name = n] :
        id \in {1, 2}, n \in {"0-form", "0-Form", "mass"}}
    \cup
    {[newMorphismDecl(3, ModelTypes("simple-olog")[2].morType)
         EXCEPT !.name = n, !.dom = BasicOb(1), !.cod = BasicOb(1)] :
        n \in {"d", "d *", "grad"}}
    \cup
    {[tag |-> "equation", id |-> 4, name |-> ""]}

\* The models of at most MaxTheoryCells cells, each id at most once.
TheoryInputs ==
    {m \in UNION {[1..n -> TheoryCells] : n \in 0..MaxTheoryCells} :
        \A i, j \in 1..Len(m) : i # j => m[i].id # m[j].id}

\* The service has received a request with such a model and an empty diagram
\* (PodeSystem is exported: the request is that of any client of the kernel).
InitTheory ==
    /\ InitEdit
    /\ InitLoad
    /\ InitSync
    /\ diagram = <<>>
    /\ validatedDiagram = validateDiagram(validateModel("simple-olog", <<>>), <<>>)
    /\ diagramObjectIndex = indexObjects(<<>>)
    /\ decapodesContent = [scalars |-> <<>>, plotVariables |-> <<>>]
    /\ kernel = KernelReady
    /\ simResult = Pending
    /\ \E m \in TheoryInputs :
         inflight = Request([diagram |-> <<>>, model |-> m, scalars |-> <<>>,
                             plotVariables |-> {}])
    /\ mounted = TRUE
    /\ runningKernels = 1

NextTheory == RunPodeSystem

\* The Decapodes analysis of a new diagram in the loaded model of the discrete
\* exterior calculus, the kernel ready: the result resource has run its
\* fetcher and sent the request of the empty diagram.
InitPlot ==
    /\ theory = "simple-olog"
    /\ docName = ""
    /\ notebook = DecModelNotebook("d")
    /\ nextUuid = 5
    /\ validated = validateModel("simple-olog", formalJudgments(DecModelNotebook("d")))
    /\ cellValidatedModel =
         validatedModelMemo(validationResult(
             validateModel("simple-olog", formalJudgments(DecModelNotebook("d")))))
    /\ objectIndex = indexObjects(formalJudgments(DecModelNotebook("d")))
    /\ diagram = <<>>
    /\ diagramObjectIndex = indexObjects(<<>>)
    /\ validatedDiagram = validateDiagram(validated, <<>>)
    /\ decapodesContent = [scalars |-> <<>>, plotVariables |-> <<>>]
    /\ kernel = KernelReady
    /\ simResult = Pending
    /\ inflight = Request(makeSimulationData(validatedDiagram, diagramObjectIndex,
                                             formalJudgments(notebook),
                                             decapodesContent))
    /\ mounted = TRUE
    /\ runningKernels = 1
    /\ InitLoad
    /\ InitSync

\* The diagram and the plot flags under edit, the simulation re-run and the
\* service answering.
NextPlot ==
    \/ InsertDiagramObject
    \/ SetOver
    \/ SetDiagramObjectName
    \/ RemoveDiagramCell
    \/ TogglePlotVariable
    \/ RerunSimulation
    \/ RunPodeSystem

\* ------------------------------------------------------------------ specifications
Init == InitEdit /\ InitLoad /\ InitSync /\ InitSimIdle

Next == NextEdit

\* The model document under edit.
Spec == Init /\ [][Next]_vars

\* The creation and the loading of documents.
SpecLoad == Init /\ [][NextLoad]_vars

\* Two actors editing one replicated notebook.
SpecSync == Init /\ [][NextSync]_vars

\* The Decapodes analysis of a diagram in a model, both under edit.
SpecSim == InitSim /\ [][NextSim]_vars

\* Two actors editing the theory and the notebook of one replicated model.
SpecTheorySync == Init /\ [][NextTheorySync]_vars

\* The decapodes service on the simulation requests of valid diagrams.
SpecPode == InitPode /\ [][NextPode]_vars

\* The decapodes service on the models of any requests.
SpecTheory == InitTheory /\ [][NextTheory]_vars

\* The parameters of the Decapodes analysis under edit, the service answering.
SpecPlot == InitPlot /\ [][NextPlot]_vars

\* The Decapodes analysis when the Jupyter server answers every request: each
\* await of the two fetchers returns or rejects in the end.
SpecSimFair ==
    /\ SpecSim
    /\ WF_vars(KernelStartNewDone)
    /\ WF_vars(KernelInitReply)
    /\ WF_vars(KernelShutdownDone)
    /\ WF_vars(SimulationReply)

\* ------------------------------------------------------------------ claims
\* The formal judgments of the notebook, and the positions of its morphisms.
Judgments == formalJudgments(notebook)

MorPositions == {p \in 1..Len(Judgments) : Judgments[p].tag = "morphism"}

\* The ids of the object judgments at the positions in ps.
DeclaredObIds(ps) == {Judgments[p].id : p \in {q \in ps : Judgments[q].tag = "object"}}

\* Is ob a reference to one of the ids?
RefersInto(ob, ids) == ob.tag = "Basic" /\ ob.content \in ids

\* The ids of the judgments of the given tag, in sequence order.
RECURSIVE IdsOfTag(_, _)
IdsOfTag(js, tag) ==
    IF js = <<>> THEN <<>>
    ELSE (IF Head(js).tag = tag THEN <<Head(js).id>> ELSE <<>>) \o IdsOfTag(Tail(js), tag)

RECURSIVE IdsOf(_)
IdsOf(decls) == IF decls = <<>> THEN <<>> ELSE <<Head(decls).id>> \o IdsOf(Tail(decls))

\* Does the validation result report the judgment with this id?
Reported(id) ==
    /\ validated # Undefined
    /\ validated.result.tag = "Err"
    /\ \E e \in 1..Len(validated.result.content) :
           validated.result.content[e].judgment = id

\* C1: while the theory's kind is not "Discrete", validateModel returns
\* undefined for the judgments of every notebook the edits reach: the
\* validation state is Unvalidated, never Valid or Invalid.
C1_UnsupportedKindStaysUnvalidated ==
    TheoryKind(theory) # "Discrete" => validated = Undefined

\* An unsupported theory with a morphism judgment in the notebook.
C1_Witness ==
    /\ TheoryKind(theory) # "Discrete"
    /\ MorPositions # {}
    /\ validated = Undefined

C3_DanglingReferenceIsErr ==
    TheoryKind(theory) = "Discrete" =>
        \A p \in MorPositions :
            /\ (Judgments[p].dom.tag = "Basic"
                  /\ Judgments[p].dom.content \notin DeclaredObIds(1..Len(Judgments)))
               => /\ validated.result.tag = "Err"
                  /\ \E e \in 1..Len(validated.result.content) :
                         validated.result.content[e] =
                             [judgment |-> Judgments[p].id, kind |-> "dangling-dom"]
            /\ (Judgments[p].cod.tag = "Basic"
                  /\ Judgments[p].cod.content \notin DeclaredObIds(1..Len(Judgments)))
               => /\ validated.result.tag = "Err"
                  /\ \E e \in 1..Len(validated.result.content) :
                         validated.result.content[e] =
                             [judgment |-> Judgments[p].id, kind |-> "dangling-cod"]

\* Scenario B: an object and a morphism whose dom is that object and whose
\* cod is an id no object declares; the only error names the morphism's cod.
C3_Witness ==
    /\ TheoryKind(theory) = "Discrete"
    /\ Len(Judgments) = 2
    /\ Judgments[1].tag = "object"
    /\ Judgments[2].tag = "morphism"
    /\ Judgments[2].dom = BasicOb(Judgments[1].id)
    /\ Judgments[2].cod.tag = "Basic"
    /\ Judgments[2].cod.content # Judgments[1].id
    /\ validated.result =
         [tag |-> "Err",
          content |-> <<[judgment |-> Judgments[2].id, kind |-> "dangling-cod"]>>]

\* C4: on a supported kind, when the dom and cod of every morphism resolve to
\* objects declared earlier in the sequence, validation returns Ok and the
\* model holds exactly the declared objects and the declared morphisms, each
\* in declaration order.
C4_ResolvedJudgmentsAreOk ==
    (/\ TheoryKind(theory) = "Discrete"
     /\ \A p \in MorPositions :
            /\ RefersInto(Judgments[p].dom, DeclaredObIds(1..(p - 1)))
            /\ RefersInto(Judgments[p].cod, DeclaredObIds(1..(p - 1))))
    => /\ validated.result.tag = "Ok"
       /\ IdsOf(validated.model.obs) = IdsOfTag(Judgments, "object")
       /\ IdsOf(validated.model.mors) = IdsOfTag(Judgments, "morphism")

\* Scenario A: an object followed by a morphism from it to itself.
C4_Witness ==
    /\ TheoryKind(theory) = "Discrete"
    /\ Len(Judgments) = 2
    /\ Judgments[1].tag = "object"
    /\ Judgments[2].tag = "morphism"
    /\ Judgments[2].dom = BasicOb(Judgments[1].id)
    /\ Judgments[2].cod = BasicOb(Judgments[1].id)
    /\ validated.result.tag = "Ok"
    /\ IdsOf(validated.model.obs) = <<Judgments[1].id>>
    /\ IdsOf(validated.model.mors) = <<Judgments[2].id>>

\* The live models the mounted page has built.
LiveModels ==
    IF resource.state # "ready" THEN {}
    ELSE IF page.kind = "model" THEN {resource.value}
    ELSE IF page.kind = "analysis" THEN {resource.value.liveModel}
    ELSE {}

\* C5 as stated: a reference that is expected to lead to a model and resolves
\* to a stored document of another type never becomes a live model: every
\* live model a page has built wraps a document of type "model".
C5_Original == \A lm \in LiveModels : TypeOf(lm.doc) = "model"

\* C6: when the document retrieved for the analysis page has a type other than
\* "analysis" (or none), the load ends in the error state with the explicit
\* type error, the embedded model is never asked for, and no live analysis is
\* returned.
C6_NonAnalysisAbortsLoad ==
    (/\ page.kind = "analysis"
     /\ page.pc \in {"retrieveModel", "done"}
     /\ page.doc # NoDoc
     /\ TypeOf(page.doc) # "analysis")
    => /\ page.pc = "done"
       /\ resource = Errored("Expected analysis document")
       /\ requests = <<page.ref>>

\* The analysis page was opened on a document without a type discriminator
\* and the load has ended in the error state.
C6_Witness ==
    /\ page.kind = "analysis"
    /\ page.pc = "done"
    /\ page.doc # NoDoc
    /\ TypeOf(page.doc) = "undefined"
    /\ resource.state = "errored"

\* C7 as stated: the analysis page, once it has read a document made by
\* newAnalysisDocument(m), has asked for the retrieval of the model m, right
\* after that of the analysis itself.
C7_Original ==
    \A m \in Refs :
        (/\ page.kind = "analysis"
         /\ page.pc \in {"retrieveModel", "done"}
         /\ page.doc = newAnalysisDocument(m))
        => requests = <<page.ref, m>>

\* The insertAt changes a replica holds, and the cells a replica has seen
\* removed.
InsertsIn(a) == {o \in replicas[a] : o.f.op = "insertAt"}

RemovedIn(a) == {o.f.cell : o \in {d \in replicas[a] : d.f.op = "removeAt"}}

\* Two changes made by different actors, neither knowing of the other, that
\* insert at the same index.
ConcurrentInsertsAtSameIndex(o1, o2) ==
    /\ o1.id.actor # o2.id.actor
    /\ o1.id \notin o2.seen
    /\ o2.id \notin o1.seen
    /\ o1.f.index = o2.f.index

\* The position of a cell in a sequence of cells (0 when absent).
PositionIn(cells, cell) ==
    IF \E i \in 1..Len(cells) : cells[i] = cell
    THEN CHOOSE i \in 1..Len(cells) : cells[i] = cell
    ELSE 0

\* C8: of two concurrent insertAt changes at the same index by different
\* actors, every replica that holds both (and has seen neither cell removed)
\* shows both cells, and any two such replicas show them in the same relative
\* order.
C8_ConcurrentInsertsBothSurvive ==
    \A a \in Actors :
      \A o1 \in InsertsIn(a), o2 \in InsertsIn(a) :
        (/\ ConcurrentInsertsAtSameIndex(o1, o2)
         /\ o1.f.cell \notin RemovedIn(a)
         /\ o2.f.cell \notin RemovedIn(a))
        => /\ PositionIn(NotebookOf(replicas[a]), o1.f.cell) > 0
           /\ PositionIn(NotebookOf(replicas[a]), o2.f.cell) > 0
           /\ \A b \in Actors :
                (/\ o1 \in replicas[b]
                 /\ o2 \in replicas[b]
                 /\ o1.f.cell \notin RemovedIn(b)
                 /\ o2.f.cell \notin RemovedIn(b))
                => (PositionIn(NotebookOf(replicas[a]), o1.f.cell)
                      < PositionIn(NotebookOf(replicas[a]), o2.f.cell))
                   = (PositionIn(NotebookOf(replicas[b]), o1.f.cell)
                        < PositionIn(NotebookOf(replicas[b]), o2.f.cell))

\* Both replicas have merged two concurrent insertions at the same index and
\* both show the two cells.
C8_Witness ==
    \E o1 \in InsertsIn(1), o2 \in InsertsIn(1) :
        /\ ConcurrentInsertsAtSameIndex(o1, o2)
        /\ \A a \in Actors :
             /\ o1 \in replicas[a]
             /\ o2 \in replicas[a]
             /\ PositionIn(NotebookOf(replicas[a]), o1.f.cell) > 0
             /\ PositionIn(NotebookOf(replicas[a]), o2.f.cell) > 0

\* The simulation's plot is on display: the last Match of the Decapodes
\* Switch.
SimVisible ==
    /\ mounted
    /\ kernel.state = "ready"
    /\ simResult.state = "ready"
    /\ simResult.value # Undefined
    /\ ~(validatedDiagram # Undefined /\ validatedDiagram.result.tag = "Err")

\* The derived state that is recomputed synchronously is that of the current
\* snapshot.
SynchronousDerivedStateIsCurrent ==
    /\ validated = validateModel(theory, Judgments)
    /\ cellValidatedModel =
         (IF validated # Undefined /\ validated.result.tag = "Ok"
          THEN validated.model ELSE Null)
    /\ validatedDiagram = validateDiagram(validated, diagram)

\* C9 as stated: every visible derived result, the validated model, the memo
\* of the analysis cells and the simulation result on display, was computed
\* from the current snapshot of the documents.
C9_Original ==
    /\ SynchronousDerivedStateIsCurrent
    /\ SimVisible =>
         simResult.value.from =
             makeSimulationData(validatedDiagram, diagramObjectIndex, Judgments,
                                decapodesContent)

\* C9 as amended: the validated model, the validatedModel memo of the analysis
\* cells and the validated diagram are those of the current snapshot in every
\* state (the simulation result is not: it is that of the snapshot its run
\* started from).
C9_DerivedStateIsLastSnapshot == SynchronousDerivedStateIsCurrent

\* The model has been edited into an invalid one while a simulation result of
\* an earlier snapshot is held: the memo already shows the invalid model.
C9_Witness ==
    /\ validated.result.tag = "Err"
    /\ cellValidatedModel = Null
    /\ simResult.state = "ready"
    /\ simResult.value # Undefined

\* C10: while the validation result of the embedded model is Err the diagram
\* has no validated diagram, and every simulation request (in flight or
\* answered) carries a model whose validation is Ok.
C10_InvalidModelBlocksDiagram ==
    /\ (validated # Undefined /\ validated.result.tag = "Err")
       => validatedDiagram = Undefined
    /\ inflight # Null
       => validateModel(theory, inflight.data.model).result.tag = "Ok"
    /\ (simResult.state = "ready" /\ simResult.value # Undefined)
       => validateModel(theory, simResult.value.from.model).result.tag = "Ok"

\* The simulation was run on a diagram whose model is invalid: it resolved to
\* undefined and no request was sent.
C10_Witness ==
    /\ validated.result.tag = "Err"
    /\ diagram # <<>>
    /\ validatedDiagram = Undefined
    /\ kernel.state = "ready"
    /\ simResult = Ready(Undefined)
    /\ inflight = Null

\* The formal cells of a notebook, whatever lies between them.
FormalCellsOf(cells) == SelectSeq(cells, LAMBDA c : c.tag = "formal")

\* C11 as stated: the validation state changes only with the notebook's
\* formal judgments: every step that leaves the formal cells as they were
\* leaves the validation state as it was.
C11_Original ==
    [][FormalCellsOf(notebook') = FormalCellsOf(notebook)
         => validated' = validated]_vars

\* C11 as amended: a step that leaves the formal cells and the theory as they
\* were (an edit of a rich-text cell, the insertion or removal of one, a
\* change of the document's name) leaves the validation state and the memo of
\* the analysis cells as they were; a change of the theory does change it.
C11_RichTextAndNameEditsKeepValidation ==
    [][(FormalCellsOf(notebook') = FormalCellsOf(notebook) /\ theory' = theory)
         => (validated' = validated /\ cellValidatedModel' = cellValidatedModel)]_vars

\* A rich-text cell has been inserted before a formal cell and edited, the
\* document has been renamed, and the model is still reported invalid.
C11_Witness ==
    /\ Len(notebook) = 2
    /\ notebook[1].tag = "rich-text"
    /\ notebook[1].content = "a"
    /\ notebook[2].tag = "formal"
    /\ docName = "a"
    /\ validated.result.tag = "Err"

\* The object declarations among a sequence of judgments.
ObjectDeclsOf(judgments) == SelectSeq(judgments, LAMBDA j : j.tag = "object")

\* An index holds exactly the ids of the object declarations, each with the
\* declaration's name.
IndexIsCurrent(index, judgments) ==
    /\ DOMAIN index = {ObjectDeclsOf(judgments)[i].id :
                          i \in 1..Len(ObjectDeclsOf(judgments))}
    /\ \A i \in 1..Len(ObjectDeclsOf(judgments)) :
         index[ObjectDeclsOf(judgments)[i].id] = ObjectDeclsOf(judgments)[i].name

\* C12: after any edit sequence the object index of the model and that of the
\* diagram map every object declaration's id to the declaration's current
\* name, and a simulation request, when it is built, names the diagram's
\* objects as the diagram names them at that moment.
C12_ObjectIndexIsCurrentAtUse ==
    /\ [](IndexIsCurrent(objectIndex, Judgments)
          /\ IndexIsCurrent(diagramObjectIndex, diagram))
    /\ [][(inflight = Null /\ inflight' # Null)
            => inflight'.data.diagram = diagram']_vars

\* An object of the model and an object of the diagram have been renamed, and
\* a simulation request built afterwards carries the diagram object's new name.
C12_Witness ==
    /\ \E i \in 1..Len(Judgments) :
         Judgments[i].tag = "object" /\ Judgments[i].name = "a"
    /\ diagram # <<>>
    /\ diagram[1].name = "a"
    /\ inflight # Null
    /\ inflight.data.diagram # <<>>
    /\ inflight.data.diagram[1].name = "a"

\* The refs of the handles a loaded analysis page has built live wrappers
\* from: the analysis handle and the handle of the embedded model.
WrappedHandles ==
    IF page.kind = "analysis" /\ resource.state = "ready"
    THEN {resource.value.refId, resource.value.liveModel.refId}
    ELSE {}

\* C13 as stated: when an analysis is loaded, every handle a live wrapper was
\* built from (the analysis handle and the embedded model's handle alike) had
\* its whenReady() awaited by the fetcher before.
C13_Original == WrappedHandles \subseteq page.awaited

\* A new_ref request returns without a document having been stored: the
\* creation failed.
CreationFails == newRefReq # Null /\ newRefReq' = Null /\ store' = store

\* The fetcher of the mounted page ends without a value.
LoadFails == page.pc # "done" /\ page'.pc = "done" /\ resource'.state # "ready"

\* C14 as stated: every failure of a creation or of a retrieval leaves the
\* page's load resource in the error state and sends no request, and while
\* the resource stays in the error state (no page is mounted anew) no request
\* is sent.
C14_Original ==
    [][/\ (CreationFails \/ LoadFails)
            => (resource'.state = "errored" /\ requests' = requests)
       /\ (resource.state = "errored" /\ resource'.state = "errored")
            => (requests' = requests /\ newRefReq' = Null)]_vars

\* The refs under which a step stores a document.
NewlyStored == {r \in Refs : store[r] = NoDoc /\ store'[r] # NoDoc}

\* C15: a mount of CreateModel or an invocation of createDiagram /
\* createAnalysis sends one new_ref request and stores nothing by itself; when
\* the request returns no second request is sent, at most one document has
\* been created, and the caller navigates exactly when a document was
\* created, to that very document.
C15_CreationAtMostOnce ==
    [][/\ (newRefReq = Null /\ newRefReq' # Null)
            => /\ store' = store
               /\ newRefReq'.from \in {"CreateModel", "createDiagram", "createAnalysis"}
               /\ (newRefReq'.from = "CreateModel") = (page'.kind = "create")
               /\ (newRefReq'.from # "CreateModel") = (page'.kind = "model")
       /\ (newRefReq # Null /\ newRefReq' # newRefReq)
            => /\ newRefReq' = Null
               /\ Cardinality(NewlyStored) <= 1
               /\ (page' # page) = (NewlyStored # {})
               /\ \A r \in NewlyStored :
                    /\ store'[r] = newRefReq.content
                    /\ page'.ref = r
                    /\ page'.kind =
                         (IF newRefReq.from = "CreateModel" THEN "model"
                          ELSE IF newRefReq.from = "createAnalysis" THEN "analysis"
                          ELSE "diagram")]_vars

\* A creation has failed: CreateModel shows its error, no request is in
\* flight and no document was stored.
C15_Witness ==
    /\ page.kind = "create"
    /\ resource = Errored("Failed to create model")
    /\ newRefReq = Null
    /\ Stored = {}

\* C16 as stated: every creation request (model, diagram, analysis) carries
\* the document's permissions together with its initial content. (No edit of
\* the live document reads permissions: the model has no such guard.)
C16_Original ==
    newRefReq # Null
      => (newRefReq.content # Undefined /\ newRefReq.permissions # Undefined)

\* C17 as stated: once the Decapodes component has been disposed and the
\* requests it had started have resolved, nothing of theirs is visible, no
\* simulation is in flight on its behalf and no kernel is left alive for it.
C17_Original ==
    (~mounted /\ kernel.state # "pending")
      => (runningKernels = 0 /\ ~SimVisible)

\* The model does not validate: its result is Err, or validation is not
\* supported for its theory.
NotValidated == validated = Undefined \/ validated.result.tag = "Err"

\* C18: in every state whose validation result is Err or where validation is
\* unsupported, the notebook can still be changed and the change is applied:
\* any cell can be removed, a cell can be inserted while there is room, the
\* document and any declaration can be renamed, and a morphism's domain can
\* be set to an object of the notebook.
C18_InvalidModelStaysEditable ==
    NotValidated =>
      /\ ENABLED (SetDocName /\ docName' # docName)
      /\ notebook # <<>>
           => ENABLED (RemoveCell /\ Len(notebook') = Len(notebook) - 1)
      /\ (Len(notebook) < MaxCells /\ nextUuid + 1 <= MaxUuid)
           => /\ ENABLED (InsertFormalCell /\ Len(notebook') = Len(notebook) + 1)
              /\ ENABLED (InsertRichTextCell /\ Len(notebook') = Len(notebook) + 1)
      /\ (\E i \in 1..Len(notebook) : notebook[i].tag = "formal")
           => ENABLED (SetName /\ notebook' # notebook)
      /\ (\E i, j \in 1..Len(notebook) :
            /\ notebook[i].tag = "formal" /\ notebook[i].content.tag = "morphism"
            /\ notebook[j].tag = "formal" /\ notebook[j].content.tag = "object")
           => ENABLED (SetDom /\ notebook' # notebook)

\* A morphism is created with neither domain nor codomain, so the model is
\* invalid from its insertion on; here its domain has been set since and the
\* model is still invalid: the edit was applied while the result was Err.
C18_Witness ==
    /\ validated # Undefined
    /\ validated.result.tag = "Err"
    /\ \E i \in 1..Len(notebook) :
         /\ notebook[i].tag = "formal"
         /\ notebook[i].content.tag = "morphism"
         /\ notebook[i].content.dom # Null
         /\ notebook[i].content.cod = Null

\* Two calls of validateModel in a row on the judgments of the notebook: the
\* second is given the array as the first has left it.
FirstValidation == validateModelCall(theory, Judgments)

SecondValidation == validateModelCall(theory, FirstValidation.judgments)

Permuted(seq, p) == [i \in 1..Len(seq) |-> seq[p[i]]]

\* The orders of n elements.
Orders(n) == {p \in [1..n -> 1..n] : \A i, j \in 1..n : i # j => p[i] # p[j]}

\* The ids of the judgments validation reports, as a set.
OffendingIds(v) ==
    IF v = Undefined THEN {}
    ELSE IF v.result.tag = "Ok" THEN {}
    ELSE {v.result.content[i].judgment : i \in 1..Len(v.result.content)}

\* The operators of a decapode, each with the uuids of the variables it goes
\* from and to.
UuidOf(d, var) == CHOOSE id \in DOMAIN d.vars : d.vars[id] = var

OperatorsOf(d) ==
    {[src |-> UuidOf(d, d.Op1[i].src), tgt |-> UuidOf(d, d.Op1[i].tgt),
      op1 |-> d.Op1[i].op1] : i \in 1..Len(d.Op1)}

\* C20 as stated: any order of the model's formal cells gives the same
\* validation outcome with the same offending judgments, and the decapode the
\* service has built from a diagram has the operators that any other order of
\* the diagram's cells gives.
C20_Original ==
    /\ \A p \in Orders(Len(Judgments)) :
         LET v == validateModel(theory, Permuted(Judgments, p))
         IN /\ (v = Undefined) = (validated = Undefined)
            /\ OffendingIds(v) = OffendingIds(validated)
    /\ (simResult.state = "ready" /\ simResult.value # Undefined) =>
         LET data == simResult.value.from
         IN \A p \in Orders(Len(data.diagram)) :
              OperatorsOf(Decapode(Permuted(data.diagram, p), Theory(data.model),
                                   data.scalars))
              = OperatorsOf(simResult.value.system.pode)

\* The judgments of a sequence of cells, each with the id of its cell.
FormalCellIds(cells) == {cells[i].id : i \in {k \in 1..Len(cells) : cells[k].tag = "formal"}}

JudgmentOfCell(cells, cellId) ==
    cells[CHOOSE i \in 1..Len(cells) : cells[i].id = cellId].content

\* C21: a declaration made by a cell constructor has an id uuidv7() has never
\* returned before, an empty name and, for a morphism, neither domain nor
\* codomain; an edit of a cell's content leaves the declaration's id as it
\* was; the ids of the judgments of the notebook are pairwise distinct.
C21_FreshIdsStayDistinct ==
    /\ [](\A i, j \in 1..Len(Judgments) :
             i # j => Judgments[i].id # Judgments[j].id)
    /\ [][/\ \A c \in FormalCellIds(notebook') \ FormalCellIds(notebook) :
               LET decl == JudgmentOfCell(notebook', c)
               IN /\ decl.id \in nextUuid..(nextUuid' - 1)
                  /\ decl.name = ""
                  /\ decl.tag = "morphism" => (decl.dom = Null /\ decl.cod = Null)
          /\ \A c \in FormalCellIds(notebook') \cap FormalCellIds(notebook) :
               JudgmentOfCell(notebook', c).id = JudgmentOfCell(notebook, c).id]_vars

\* After the removal of an earlier declaration the notebook holds an object
\* that has been renamed and a morphism whose domain has been set to it: the
\* two declarations still have the ids they were made with, distinct ones.
C21_Witness ==
    /\ nextUuid = 7
    /\ Len(Judgments) = 2
    /\ \E i, j \in 1..2 :
         /\ Judgments[i].tag = "object"
         /\ Judgments[i].name = "a"
         /\ Judgments[j].tag = "morphism"
         /\ Judgments[j].dom = BasicOb(Judgments[i].id)
         /\ Judgments[i].id # Judgments[j].id

\* The fetcher of the result resource runs in this step: the kernel resource
\* becomes ready while the component is mounted, or the re-run button is used.
SimulationFetcherRuns ==
    \/ RerunSimulation
    \/ (KernelInitReply /\ kernel'.state = "ready" /\ mounted)

\* Is the validation result of the diagram Ok?
DiagramOk == validatedDiagram # Undefined /\ validatedDiagram.result.tag = "Ok"

\* C22: a simulation request is sent only by a run of the fetcher that finds
\* the diagram's validation result Ok; a run that finds the validated diagram
\* undefined or its result not Ok resolves the result resource to undefined
\* and sends nothing.
C22_RequestOnlyWhenDiagramOk ==
    [][/\ (inflight = Null /\ inflight' # Null)
            => (SimulationFetcherRuns /\ DiagramOk)
       /\ (inflight # Null /\ inflight' # Null) => inflight'.data = inflight.data
       /\ (SimulationFetcherRuns /\ ~DiagramOk)
            => (simResult' = Ready(Undefined) /\ inflight' = Null /\ inflight = Null)
       /\ (SimulationFetcherRuns /\ DiagramOk)
            => (simResult' = Pending /\ inflight' # Null)]_vars

\* The fetcher has run on a diagram whose own validation result is Err (an
\* object that lies over nothing): it resolved to undefined, nothing was sent.
C22_Witness ==
    /\ validatedDiagram # Undefined
    /\ validatedDiagram.result.tag = "Err"
    /\ kernel.state = "ready"
    /\ mounted
    /\ simResult = Ready(Undefined)
    /\ inflight = Null

\* C23 as stated: once the Decapodes component has been disposed, every
\* kernel it has started is shut down in the end, whenever the disposal
\* happens: no kernel stays alive on the server without an owner.
C23_Original == (~mounted) ~> (runningKernels = 0)

TheoryOfDecl(decl) ==
    IF decl.tag = "object" THEN decl.obType.content ELSE decl.morType.content

\* C25 as stated: in every state of the model document that an actor shows,
\* reached by its own edits and by merges of the other's, every formal cell
\* holds a declaration constructed from the type metadata of the document's
\* theory.
C25_Original ==
    \A a \in Actors :
      \A i \in 1..Len(NotebookOf(replicas[a])) :
        NotebookOf(replicas[a])[i].tag = "formal"
          => TheoryOfDecl(NotebookOf(replicas[a])[i].content) = TheoryOf(replicas[a])

\* The ids of the objects a simulation request declares in its diagram.
RequestObjectIds(data) ==
    {data.diagram[i].id :
        i \in {k \in 1..Len(data.diagram) : data.diagram[k].tag = "object"}}

\* C26 as stated: every id among the plotVariables of a simulation request is
\* the id of an object of the diagram the request carries, whatever plot
\* flags were toggled and objects inserted and deleted before.
C26_Original ==
    inflight # Null => inflight.data.plotVariables \subseteq RequestObjectIds(inflight.data)

\* The object cells of a diagram before position p, as a set of positions,
\* and the variable an object id is mapped to by the cells before p: the rank
\* of its cell among them (0 when no object cell before p has the id).
ObjectCellsBefore(cells, p) == {k \in 1..(p - 1) : cells[k].tag = "object"}

VarBefore(cells, p, id) ==
    IF \E k \in ObjectCellsBefore(cells, p) : cells[k].id = id
    THEN Cardinality({k \in ObjectCellsBefore(cells, p) :
                         k <= (CHOOSE q \in ObjectCellsBefore(cells, p) :
                                  cells[q].id = id)})
    ELSE 0

\* Does the morphism cell at position p have both ends mapped by object cells
\* before it?
BothEndsMapped(cells, p) ==
    /\ VarBefore(cells, p, cells[p].dom.content) > 0
    /\ VarBefore(cells, p, cells[p].cod.content) > 0

\* The operators the morphism cells from position p on are to add, in order.
RECURSIVE ExpectedOp1(_, _, _)
ExpectedOp1(cells, th, p) ==
    IF p > Len(cells) THEN <<>>
    ELSE (IF cells[p].tag = "morphism" /\ BothEndsMapped(cells, p)
          THEN <<[src |-> VarBefore(cells, p, cells[p].dom.content),
                  tgt |-> VarBefore(cells, p, cells[p].cod.content),
                  op1 |-> th.data[cells[p].over.content].name]>>
          ELSE <<>>)
         \o ExpectedOp1(cells, th, p + 1)

\* The codomains of the expected operators that are time derivatives.
RECURSIVE ExpectedTVar(_)
ExpectedTVar(ops) ==
    IF ops = <<>> THEN <<>>
    ELSE (IF Head(ops).op1 = "partial_t" THEN <<Head(ops).tgt>> ELSE <<>>)
         \o ExpectedTVar(Tail(ops))

\* C27: the decapode the service has built from the cells of a request has,
\* in the order of the cells, one Op1 for each morphism cell whose dom and cod
\* were both mapped by object cells earlier in the sequence (from and to the
\* variables of those cells, with a TVar on the codomain exactly for the time
\* derivative) and nothing for any other morphism cell; no error is raised
\* and every object cell, also one after such a morphism cell, has its
\* variable.
C27_Op1OnlyForEarlierMappedEnds ==
    (inflight = Null /\ simResult.state # "pending") =>
        /\ simResult.state = "ready"
        /\ LET data == simResult.value.from
               pode == simResult.value.system.pode
               ops == ExpectedOp1(data.diagram, Theory(data.model), 1)
           IN /\ pode.Op1 = ops
              /\ pode.TVar = ExpectedTVar(ops)
              /\ pode.error = ""
              /\ Len(pode.Var) = Cardinality(ObjectCellsBefore(data.diagram,
                                                               Len(data.diagram) + 1))

\* The request's cells were an object, a time derivative from it to a second
\* object, and that second object: the morphism cell added nothing, raised
\* nothing, and both objects have their variables.
C27_Witness ==
    /\ simResult.state = "ready"
    /\ simResult.value # Undefined
    /\ LET cells == simResult.value.from.diagram
           pode == simResult.value.system.pode
       IN /\ Len(cells) = 3
          /\ cells[1].tag = "object"
          /\ cells[2].tag = "morphism"
          /\ cells[2].dom.content = cells[1].id
          /\ cells[3].tag = "object"
          /\ cells[2].cod.content = cells[3].id
          /\ Theory(simResult.value.from.model).data[cells[2].over.content].name
               = "partial_t"
          /\ pode.Op1 = <<>>
          /\ pode.TVar = <<>>
          /\ Len(pode.Var) = 2

\* C28: a simulation run ends in exactly one of three outcomes: the error of
\* the kernel's traceback, the error "Result not received from the simulator"
\* when the fetcher holds no result, or the result the fetcher holds; and the
\* result the fetcher holds, during the run and at its end, is the output of
\* an execute_result message whose parent is this run's request.
C28_ThreeOutcomesOwnResultOnly ==
    /\ [](/\ (inflight # Null /\ inflight.result # Undefined)
               => inflight.result.of = inflight.msgId
          /\ (simResult.state = "ready" /\ simResult.value # Undefined)
               => simResult.value.result.of = RunMsgId)
    /\ [][(inflight # Null /\ inflight' = Null) =>
            \/ simResult' = Errored("traceback")
            \/ /\ inflight.result = Undefined
               /\ simResult' = Errored("Result not received from the simulator")
            \/ /\ inflight.result # Undefined
               /\ simResult' = Ready([from |-> inflight.data,
                                      result |-> inflight.result])]_vars

\* A run has ended with the result captured from its own execute_result
\* message, and the plot is on display.
C28_Witness ==
    /\ mounted
    /\ kernel.state = "ready"
    /\ inflight = Null
    /\ simResult.state = "ready"
    /\ simResult.value # Undefined
    /\ simResult.value.result = [of |-> RunMsgId]

\* C29: the plot is shown only while the kernel resource is neither loading
\* nor in error, the result resource is neither loading nor in error and the
\* diagram's validation result is not Err; a result held while the diagram's
\* result is Err is behind the "Modeling error" alert; while the kernel or
\* the simulation is loading neither the re-run nor the restart is offered.
C29_PlotOnlyWhenNothingIsWrong ==
    /\ Displayed = "PDEPlot2D"
         => /\ kernel.state \notin {"pending", "errored"}
            /\ simResult.state = "ready"
            /\ simResult.value # Undefined
            /\ ~(validatedDiagram # Undefined /\ validatedDiagram.result.tag = "Err")
    /\ (/\ kernel.state = "ready"
        /\ simResult.state = "ready"
        /\ validatedDiagram # Undefined
        /\ validatedDiagram.result.tag = "Err")
         => Displayed = "Modeling error"
    /\ (kernel.state = "pending" \/ simResult.state = "pending")
         => (~ENABLED RerunSimulation /\ ~ENABLED RestartKernel)

\* The simulation has given a result on a valid diagram and the diagram has
\* been made invalid since: the result is held, the alert is shown.
C29_Witness ==
    /\ mounted
    /\ kernel.state = "ready"
    /\ simResult.state = "ready"
    /\ simResult.value # Undefined
    /\ validatedDiagram # Undefined
    /\ validatedDiagram.result.tag = "Err"
    /\ Displayed = "Modeling error"

\* Is the cell one that the service converts: an object whose name, in lower
\* case, is a form's, or a morphism whose name, without spaces, is an
\* operator's?
IsConvertible(cell) ==
    \/ cell.tag = "object" /\ cell.name \in {"0-form", "0-Form"}
    \/ cell.tag = "morphism" /\ cell.name \in {"d", "d *"}

\* C30 as stated: the run of the service on a model all of whose cells it can
\* convert has a theory with an element for every cell id; on any other model
\* (an object or a morphism with a name it does not know, a cell that is
\* neither) the run ends with ImplError, and nothing is returned.
C30_Original ==
    [][(inflight # Null /\ inflight' = Null) =>
         LET cells == inflight.data.model
         IN IF \A i \in 1..Len(cells) : IsConvertible(cells[i])
            THEN /\ simResult'.state = "ready"
                 /\ Theory(cells).error = ""
                 /\ DOMAIN Theory(cells).data = {cells[i].id : i \in 1..Len(cells)}
            ELSE simResult' = Errored("ImplError")]_vars

====
